---- MODULE Spec2Model ----
(***************************************************************************)
(* TGUI widget containment and event routing.                              *)
(*                                                                         *)
(*   Group        include/TGUI/Group.hpp   ordered children and names      *)
(*   ChildWindow  src/TGUI/ChildWindow.cpp title bar, drag, close button   *)
(*   HorizontalLayout  src/TGUI/HorizontalLayout.cpp  sizes and offsets    *)
(*   Slider2D     include/TGUI/Slider2D.hpp bounds, value, release         *)
(*                                                                         *)
(* One ChildWindow instance (object WinId) is modelled field by field; the *)
(* containers are the sequences m_Objects / m_ObjName, one pair per Group. *)
(* Coordinates are integers; the close button's position is kept in half   *)
(* pixels because the code centres it with m_TitleBarHeight / 2.f.         *)
(***************************************************************************)
EXTENDS Integers, Sequences, FiniteSets, TLC

\* ---------------------------------------------------------------- bounds
\* Largest mouse coordinate delivered with an event (x and y).
MaxX == 3
MaxY == 1
\* Objects one container may hold in the container specification.
MaxObjects == 3
\* Largest object identity handed out by new.
MaxId == 4
\* The theme the window is loaded with: the size passed to load(), the height
\* of the TitleBar image and the side of the (square) Close image.
WinWidth == 3
WinHeight == 1
TitleBarImageHeight == 1
CloseImageSize == 1
\* Children one layout may hold.
MaxWidgets == 3

\* ------------------------------------------------------------- constants
NULL == 0
\* The ChildWindow under test: the first object allocated.
WinId == NULL + 1
Root == "root"
Win == "window"
Groups == {Root, Win}
Names == {"", "a", "b"}
Kinds == {"Button", "ChildWindow"}

VARIABLES
    \* Group
    m_Objects,          \* [Groups -> Seq(object id)]  m_EventManager.m_Objects
    m_ObjName,          \* [Groups -> Seq(name)]
    heap,               \* object id -> [kind, m_Parent, initialized]
    callbackQueue,      \* callbacks handed to Group::addCallback, oldest first
    \* ChildWindow
    m_Loaded,
    position,
    m_Size,
    m_TitleBarHeight,
    layout,
    distanceToSide,
    callbackID,
    m_MouseDown,
    m_DraggingPosition,
    m_CloseButton,      \* [position (half pixels), size, scale, m_MouseDown]
    \* observation of the last call
    call,               \* the last operation and its arguments
    returned,           \* what it returned (NULL where it returns nothing)
    fx,                 \* calls the last handleEvent made, in program order
    panelEvents,        \* events the last handleEvent passed to Panel::handleEvent
    hist                \* bookkeeping over the events delivered so far

groupVars == <<m_Objects, m_ObjName, heap, callbackQueue>>
winVars == <<m_Loaded, position, m_Size, m_TitleBarHeight, layout, distanceToSide,
             callbackID, m_MouseDown, m_DraggingPosition, m_CloseButton>>
obsVars == <<call, returned, fx, panelEvents, hist>>
vars == <<groupVars, winVars, obsVars>>

\* ------------------------------------------------------------------ Group

Point(x, y) == [x |-> x, y |-> y]
Origin == Point(0, 0)
Has(seq, x) == \E i \in 1..Len(seq) : seq[i] = x
Children(g) == {m_Objects[g][i] : i \in 1..Len(m_Objects[g])}

\* A widget as Group::add leaves it: constructed, its parent assigned, its
\* initialize() hook run; neither focused nor hovered, at the origin, empty.
Widget(kind, parent) ==
    [kind |-> kind, m_Parent |-> parent, initialized |-> TRUE,
     m_Focused |-> FALSE, m_MouseHover |-> FALSE, position |-> Origin, size |-> Origin]

\* new T(): an identity no live or earlier object has.
NewObject == 1 + CHOOSE m \in DOMAIN heap \cup {WinId} :
                     \A k \in DOMAIN heap \cup {WinId} : k <= m

\* An insertion at the start of the sequence.
push_front(vec, g, x) == [vec EXCEPT ![g] = <<x>> \o @]

\* std::vector::push_back on the container g.
push_back(vec, g, x) == [vec EXCEPT ![g] = Append(@, x)]

\* m_ObjName[i].toWideString().compare(objectName) == 0
NameMatches(stored, objectName) == stored = objectName

RECURSIVE ScanLast(_, _, _)
ScanLast(names, objectName, i) ==
    IF i < 1 THEN 0
    ELSE IF NameMatches(names[i], objectName) THEN i
    ELSE ScanLast(names, objectName, i - 1)

\* The loop of Group::get from index i on: the first of i..n whose name matches.
RECURSIVE Scan(_, _, _)
Scan(names, objectName, i) ==
    IF i > Len(names) THEN 0
    ELSE IF NameMatches(names[i], objectName) THEN i
    ELSE Scan(names, objectName, i + 1)

\* The add(n), get(n), remove(n), get(n) scenario: `stage` counts how far the
\* calls so far have followed it for the name `name`; `id` is what the add
\* returned and `fresh` whether no child had that name before the add.
scenarioAfter(g, op, objectName) ==
    IF op = "add" /\ objectName # ""
    THEN [hist EXCEPT !.stage = 1, !.name = objectName, !.id = NewObject,
                      !.fresh = (Scan(m_ObjName[g], objectName, 1) = 0)]
    ELSE IF op = "get" /\ hist.stage \in {1, 3} /\ objectName = hist.name
    THEN [hist EXCEPT !.stage = @ + 1]
    ELSE IF op = "remove" /\ hist.stage = 2 /\ objectName = hist.name
    THEN [hist EXCEPT !.stage = 3]
    ELSE [hist EXCEPT !.stage = 0, !.name = "", !.id = NULL, !.fresh = FALSE]

\* A lookup that scans from the back.
getFromBack(g, objectName) ==
    LET i == ScanLast(m_ObjName[g], objectName, Len(m_ObjName[g]))
    IN  IF i = 0 THEN NULL ELSE m_Objects[g][i]

\* Group::get<T>(objectName)
get(g, objectName) ==
    LET i == Scan(m_ObjName[g], objectName, 1)
    IN  IF i = 0 THEN NULL ELSE m_Objects[g][i]

\* Group::add<T>(objectName)
\* The m_Parent of a widget no container has taken yet.
NoParent == "NULL"

\* The statements of Group::add after "new T()", in program order.
addStepsHookFirst ==
    <<"initialize", "m_Parent", "m_Objects.push_back", "m_ObjName.push_back">>

addSteps ==
    <<"m_Parent", "m_Objects.push_back", "m_ObjName.push_back", "initialize">>

\* What newObject->initialize() finds when it runs: its own m_Parent and the
\* child and name sequences of that parent (none while it has no parent).
initialize(s, newObject) ==
    LET parent == s.object.m_Parent
    IN  [runs |-> s.hook.runs + 1,
         m_Parent |-> parent,
         m_Objects |-> IF parent \in Groups THEN s.m_Objects[parent] ELSE <<>>,
         m_ObjName |-> IF parent \in Groups THEN s.m_ObjName[parent] ELSE <<>>]

\* One statement of Group::add, on the state s the statements before it left.
addStep(s, step, g, newObject, objectName) ==
    CASE step = "m_Parent" -> [s EXCEPT !.object.m_Parent = g]
      [] step = "m_Objects.push_back" ->
            [s EXCEPT !.m_Objects = push_back(@, g, newObject)]
      [] step = "m_ObjName.push_back" ->
            [s EXCEPT !.m_ObjName = push_back(@, g, objectName)]
      [] step = "initialize" ->
            [s EXCEPT !.object.initialized = TRUE, !.hook = initialize(s, newObject)]

RECURSIVE addFrom(_, _, _, _, _, _)
addFrom(s, steps, i, g, newObject, objectName) ==
    IF i > Len(steps) THEN s
    ELSE addFrom(addStep(s, steps[i], g, newObject, objectName),
                 steps, i + 1, g, newObject, objectName)

\* Group::add<T>(objectName)
add(g, kind, objectName) ==
    LET newObject == NewObject
        constructed == [Widget(kind, NoParent) EXCEPT !.initialized = FALSE]
        done == addFrom([object |-> constructed, m_Objects |-> m_Objects,
                         m_ObjName |-> m_ObjName,
                         hook |-> [runs |-> 0, m_Parent |-> NoParent,
                                   m_Objects |-> <<>>, m_ObjName |-> <<>>]],
                        addSteps, 1, g, newObject, objectName)
    IN  /\ heap' = (newObject :> done.object) @@ heap
        /\ m_Objects' = done.m_Objects
        /\ m_ObjName' = done.m_ObjName
        /\ returned' = newObject
        /\ call' = [op |-> "add", group |-> g, name |-> objectName,
                    hook |-> done.hook]

Add(g, kind, objectName) ==
    /\ Len(m_Objects[g]) < MaxObjects
    /\ NewObject <= MaxId
    /\ add(g, kind, objectName)
    /\ hist' = scenarioAfter(g, "add", objectName)
    /\ UNCHANGED <<callbackQueue, winVars, fx, panelEvents>>

Get(g, objectName) ==
    /\ returned' = get(g, objectName)
    /\ call' = [op |-> "get", group |-> g, name |-> objectName]
    /\ hist' = scenarioAfter(g, "get", objectName)
    /\ UNCHANGED <<groupVars, winVars, fx, panelEvents>>

\* Group::remove(OBJECT*): the exact widget and its name leave the container;
\* an object the container does not hold changes nothing.
RECURSIVE IndexOf(_, _, _)
IndexOf(seq, x, i) ==
    IF i > Len(seq) THEN 0
    ELSE IF seq[i] = x THEN i
    ELSE IndexOf(seq, x, i + 1)

Without(seq, i) == [k \in 1..(Len(seq) - 1) |-> IF k < i THEN seq[k] ELSE seq[k + 1]]

removeObject(vec, g, object) ==
    LET i == IndexOf(m_Objects[g], object, 1)
    IN  IF i = 0 THEN vec ELSE [vec EXCEPT ![g] = Without(@, i)]

\* A removeAllObjects that spares the child in front.
removeAllButFront(vec, g) ==
    [vec EXCEPT ![g] = IF @ = <<>> THEN @ ELSE <<@[Len(@)]>>]

\* Group::removeAllObjects(): every child and every name goes.
removeAllObjects(vec, g) == [vec EXCEPT ![g] = <<>>]

\* delete: the objects `gone` leave the heap.
Delete(h, gone) == [k \in (DOMAIN h) \ gone |-> h[k]]

\* ------------------------------------------------------------ ChildWindow

Xs == 0..MaxX
Ys == 0..MaxY
EventTypes == {"MouseMoved", "MouseButtonPressed", "MouseButtonReleased"}

\* A title bar that misses its left edge.
titleBarContainsPastLeftEdge(x, y) ==
    /\ position.x < x /\ x < position.x + m_Size.x
    /\ position.y <= y /\ y < position.y + m_TitleBarHeight

\* getTransform().transformRect(sf::FloatRect(0, 0, getSize().x, m_TitleBarHeight))
\*     .contains(mouseX, mouseY), the window neither scaled nor rotated.
titleBarContains(x, y) ==
    /\ position.x <= x /\ x < position.x + m_Size.x
    /\ position.y <= y /\ y < position.y + m_TitleBarHeight

\* m_CloseButton->getScaledSize(): the image size times the scale that
\* setTitlebarHeight gave the button.
getScaledSize ==
    Point(m_CloseButton.size.x * m_CloseButton.scale,
          m_CloseButton.size.y * m_CloseButton.scale)

\* "Temporary set the close button to the correct position", in half pixels:
\* y is getPosition().y + (m_TitleBarHeight / 2.f) - (getScaledSize().x / 2.f).
closeButtonPosition ==
    [x |-> IF layout = "LayoutRight"
           THEN 2 * (position.x + m_Size.x - distanceToSide - getScaledSize.x)
           ELSE 2 * (position.x + distanceToSide),
     y |-> 2 * position.y + m_TitleBarHeight - getScaledSize.x]

\* Button::mouseOnObject(x, y) with the button placed at `at` (half pixels).
buttonMouseOnObject(at, x, y) ==
    /\ m_CloseButton.m_Loaded
    /\ at.x <= 2 * x /\ 2 * x < at.x + 2 * getScaledSize.x
    /\ at.y <= 2 * y /\ 2 * y < at.y + 2 * getScaledSize.y

\* The close button answers the hit test of a title-bar event.
onCloseButton(x, y) == buttonMouseOnObject(closeButtonPosition, x, y)

\* ChildWindow::load(width, height, bkgColor, pathname). The info file and the
\* images are the caller's: `outcome` is how far the load gets, layoutProp and
\* distProp are the "layout" and "distancetoside" properties read before it
\* stops ("none": the property is absent).
LoadOutcomes == {"NoInfoFile", "SplitImage", "NoTitleBarImage", "CloseButtonFails", "Loaded"}
LayoutProps == {"none", "left"}
DistProps == {"0"}
DefaultDistanceToSide == 5
atoi(value) == IF value = "0" THEN 0 ELSE DefaultDistanceToSide

ParsedInfoFile(outcome) == outcome # "NoInfoFile"

\* A load that only ever sets m_Loaded.
loadedAfterKeepingOld(outcome) == m_Loaded \/ outcome = "Loaded"

\* m_Loaded when load returns: false from its first statement on, true once
\* the last two statements are reached.
loadedAfter(outcome) == outcome = "Loaded"

load(width, height, pathname, outcome, layoutProp, distProp) ==
    IF pathname = ""
    THEN /\ m_Loaded' = FALSE
         /\ returned' = FALSE
         /\ UNCHANGED <<m_Size, layout, distanceToSide, m_TitleBarHeight, m_CloseButton>>
    ELSE /\ m_Size' = Point(width, height)
         /\ layout' = IF ~ParsedInfoFile(outcome) THEN layout
                      ELSE IF layoutProp = "left" THEN "LayoutLeft" ELSE "LayoutRight"
         /\ distanceToSide' = IF ~ParsedInfoFile(outcome) THEN distanceToSide
                              ELSE IF distProp = "none" THEN DefaultDistanceToSide
                              ELSE atoi(distProp)
         /\ m_TitleBarHeight' = IF outcome \in {"CloseButtonFails", "Loaded"}
                                THEN TitleBarImageHeight ELSE m_TitleBarHeight
         /\ m_CloseButton' =
                IF outcome = "Loaded"
                THEN [m_CloseButton EXCEPT !.m_Loaded = TRUE,
                                           !.size = Point(CloseImageSize, CloseImageSize)]
                ELSE IF outcome = "CloseButtonFails"
                THEN [m_CloseButton EXCEPT !.m_Loaded = FALSE]
                ELSE m_CloseButton
         /\ m_Loaded' = loadedAfter(outcome)
         /\ returned' = (outcome = "Loaded")

\* An event handed to the Panel with the window's own coordinates.
panelHandleEventUnshifted(type, mouseX, mouseY) ==
    <<[type |-> type, x |-> mouseX, y |-> mouseY]>>

\* Panel::handleEvent(event, mouseX, mouseY - m_TitleBarHeight): the event as
\* the embedded Panel receives it.
panelHandleEvent(type, mouseX, mouseY) ==
    <<[type |-> type, x |-> mouseX, y |-> mouseY - m_TitleBarHeight]>>

\* A drag that puts the window's corner under the cursor.
dragPositionAtCursor(mouseX, mouseY) == Point(mouseX, mouseY)

\* setPosition(position.x + (mouseX - position.x - m_DraggingPosition.x), ...)
dragPosition(mouseX, mouseY) ==
    Point(position.x + (mouseX - position.x - m_DraggingPosition.x),
          position.y + (mouseY - position.y - m_DraggingPosition.y))

\* An offset that forgets where the window is.
pressOffsetAbsolute(mouseX, mouseY) == Point(mouseX, mouseY)

\* m_DraggingPosition at a press on the title bar.
pressOffset(mouseX, mouseY) == Point(mouseX - position.x, mouseY - position.y)

\* "Check if the close button was clicked"
closeButtonClicked(mouseX, mouseY) ==
    onCloseButton(mouseX, mouseY) /\ m_CloseButton.m_MouseDown = TRUE

\* A close that leaves the window in its parent.
closeEffectsKeepsWindow ==
    (IF callbackID > 0 THEN <<"m_Parent->addCallback">> ELSE <<>>)
    \o <<"removeAllObjects", "return">>

\* A close that announces itself whether or not a callback was requested,
\* and only after the window is gone.
closeEffectsCallbackLast ==
    <<"removeAllObjects", "m_Parent->remove", "m_Parent->addCallback", "return">>

\* A close that falls through to the reset of the close button.
closeEffectsThenReset ==
    (IF callbackID > 0 THEN <<"m_Parent->addCallback">> ELSE <<>>)
    \o <<"removeAllObjects", "m_Parent->remove", "m_CloseButton->setPosition(0, 0)", "return">>

\* What a close does, in program order.
closeEffects ==
    (IF callbackID > 0 THEN <<"m_Parent->addCallback">> ELSE <<>>)
    \o <<"removeAllObjects", "m_Parent->remove", "return">>


\* The bookkeeping of delivered events: `armed`, the last button event was a
\* press on the close button; `prev`, armed before the last event; `drag`, a
\* press on the title bar outside the close button has been delivered and no
\* release since; `off`, press point minus window position at the latest such
\* press. The title bar and the close button exist once the window is loaded.
histAfter(type, mouseX, mouseY) ==
    LET inBar == m_Loaded /\ titleBarContains(mouseX, mouseY)
        onClose == inBar /\ onCloseButton(mouseX, mouseY)
        off == Point(mouseX - position.x, mouseY - position.y)
        seen == [hist EXCEPT !.prev = hist.armed]
    IN  IF type = "MouseButtonReleased"
        THEN [seen EXCEPT !.armed = FALSE, !.drag = FALSE]
        ELSE IF type = "MouseMoved" THEN seen
        ELSE IF onClose THEN [seen EXCEPT !.armed = TRUE]
        ELSE IF inBar
        THEN [seen EXCEPT !.armed = FALSE, !.drag = TRUE, !.off = off]
        ELSE [seen EXCEPT !.armed = FALSE]

\* "Let the child window handle the rest"
delegate(type, mouseX, mouseY) ==
    /\ fx' = <<"Panel::handleEvent">>
    /\ panelEvents' = panelHandleEvent(type, mouseX, mouseY)

\* event.type == sf::Event::MouseMoved
mouseMoved(mouseX, mouseY) ==
    IF m_MouseDown = TRUE
    THEN /\ position' = dragPosition(mouseX, mouseY)
         /\ fx' = <<"setPosition", "Panel::handleEvent">>
         /\ panelEvents' = panelHandleEvent("MouseMoved", mouseX, mouseY)
         /\ UNCHANGED <<m_MouseDown, m_DraggingPosition, m_CloseButton, groupVars>>
    ELSE IF titleBarContains(mouseX, mouseY)
    THEN /\ fx' = <<"m_CloseButton->setPosition">>
                  \o (IF onCloseButton(mouseX, mouseY)
                      THEN <<"m_CloseButton->mouseMoved">> ELSE <<>>)
                  \o <<"m_CloseButton->setPosition(0, 0)", "return">>
         /\ panelEvents' = <<>>
         /\ UNCHANGED <<position, m_MouseDown, m_DraggingPosition, m_CloseButton, groupVars>>
    ELSE /\ delegate("MouseMoved", mouseX, mouseY)
         /\ UNCHANGED <<position, m_MouseDown, m_DraggingPosition, m_CloseButton, groupVars>>

\* event.type == sf::Event::MouseButtonPressed
mouseButtonPressed(mouseX, mouseY) ==
    IF titleBarContains(mouseX, mouseY)
    THEN /\ IF onCloseButton(mouseX, mouseY)
            THEN /\ m_CloseButton' = [m_CloseButton EXCEPT !.m_MouseDown = TRUE]
                 /\ fx' = <<"m_CloseButton->setPosition", "m_CloseButton->leftMousePressed",
                            "m_CloseButton->setPosition(0, 0)", "return">>
                 /\ UNCHANGED <<m_MouseDown, m_DraggingPosition>>
            ELSE /\ m_MouseDown' = TRUE
                 /\ m_DraggingPosition' = pressOffset(mouseX, mouseY)
                 /\ fx' = <<"m_CloseButton->setPosition",
                            "m_CloseButton->setPosition(0, 0)", "return">>
                 /\ UNCHANGED m_CloseButton
         /\ panelEvents' = <<>>
         /\ UNCHANGED <<position, groupVars>>
    ELSE /\ delegate("MouseButtonPressed", mouseX, mouseY)
         /\ UNCHANGED <<position, m_MouseDown, m_DraggingPosition, m_CloseButton, groupVars>>

\* The close: the callback, the children, the window itself.
close ==
    LET steps == closeEffects
        parent == heap[WinId].m_Parent
        emptied(vec) == IF Has(steps, "removeAllObjects")
                        THEN removeAllObjects(vec, Win) ELSE vec
        removed(vec) == IF Has(steps, "m_Parent->remove")
                        THEN removeObject(emptied(vec), parent, WinId) ELSE emptied(vec)
        gone == (IF Has(steps, "removeAllObjects") THEN Children(Win) ELSE {})
                \cup (IF Has(steps, "m_Parent->remove") /\ WinId \in Children(parent)
                      THEN {WinId} ELSE {})
    IN  /\ fx' = <<"m_CloseButton->setPosition">> \o steps
        /\ callbackQueue' = IF Has(steps, "m_Parent->addCallback")
                            THEN Append(callbackQueue, [trigger |-> "closed", group |-> parent])
                            ELSE callbackQueue
        /\ m_Objects' = removed(m_Objects)
        /\ m_ObjName' = removed(m_ObjName)
        /\ heap' = Delete(heap, gone)
        /\ m_CloseButton' = [m_CloseButton EXCEPT !.position =
                                IF Has(steps, "m_CloseButton->setPosition(0, 0)")
                                THEN Origin ELSE closeButtonPosition]
        /\ panelEvents' = IF Has(steps, "Panel::handleEvent")
                          THEN panelHandleEvent("MouseButtonReleased", 0, 0) ELSE <<>>

\* A release that forgets to end the drag.
mouseDownKept == m_MouseDown

\* "The mouse is no longer down"
mouseDownAfterRelease == FALSE

\* event.type == sf::Event::MouseButtonReleased
mouseButtonReleased(mouseX, mouseY) ==
    /\ m_MouseDown' = mouseDownAfterRelease
    /\ UNCHANGED <<position, m_DraggingPosition>>
    /\ IF titleBarContains(mouseX, mouseY)
       THEN IF closeButtonClicked(mouseX, mouseY)
            THEN close
            ELSE /\ fx' = <<"m_CloseButton->setPosition",
                            "m_CloseButton->setPosition(0, 0)", "return">>
                 /\ panelEvents' = <<>>
                 /\ UNCHANGED <<m_CloseButton, groupVars>>
       ELSE /\ delegate("MouseButtonReleased", mouseX, mouseY)
            /\ UNCHANGED <<m_CloseButton, groupVars>>

\* ChildWindow::handleEvent(event, mouseX, mouseY)
handleEvent(type, mouseX, mouseY) ==
    /\ call' = [op |-> "handleEvent", type |-> type, x |-> mouseX, y |-> mouseY]
    /\ returned' = NULL
    /\ hist' = histAfter(type, mouseX, mouseY)
    /\ UNCHANGED <<m_Loaded, m_Size, m_TitleBarHeight, layout, distanceToSide, callbackID>>
    /\ IF m_Loaded = FALSE
       THEN /\ fx' = <<"return">>
            /\ panelEvents' = <<>>
            /\ UNCHANGED <<position, m_MouseDown, m_DraggingPosition, m_CloseButton, groupVars>>
       ELSE CASE type = "MouseMoved" -> mouseMoved(mouseX, mouseY)
              [] type = "MouseButtonPressed" -> mouseButtonPressed(mouseX, mouseY)
              [] type = "MouseButtonReleased" -> mouseButtonReleased(mouseX, mouseY)

\* The window exists until it has removed itself from its parent.
Alive == WinId \in DOMAIN heap

HandleEvent(type, mouseX, mouseY) ==
    /\ Alive
    /\ handleEvent(type, mouseX, mouseY)

Load(pathname, outcome, layoutProp, distProp) ==
    /\ Alive
    /\ load(WinWidth, WinHeight, pathname, outcome, layoutProp, distProp)
    /\ call' = [op |-> "load", pathname |-> pathname]
    /\ fx' = <<>>
    /\ panelEvents' = <<>>
    /\ UNCHANGED <<groupVars, position, callbackID, m_MouseDown, m_DraggingPosition, hist>>

\* A setTitlebarHeight that does not ask whether the window is loaded.
setTitlebarHeightUnguarded(height) ==
    /\ m_TitleBarHeight' = height
    /\ m_CloseButton' = [m_CloseButton EXCEPT !.scale = height \div TitleBarImageHeight]

\* ChildWindow::setTitlebarHeight(height); the scale of the close button is
\* height / m_TextureTitleBar_M->getSize().y, a whole number for the heights
\* the specification passes.
setTitlebarHeight(height) ==
    IF m_Loaded = FALSE
    THEN UNCHANGED <<m_TitleBarHeight, m_CloseButton>>
    ELSE /\ m_TitleBarHeight' = height
         /\ m_CloseButton' = [m_CloseButton EXCEPT !.scale = height \div TitleBarImageHeight]

SetTitlebarHeight(height) ==
    /\ Alive
    /\ setTitlebarHeight(height)
    /\ call' = [op |-> "setTitlebarHeight", height |-> height]
    /\ returned' = NULL
    /\ fx' = <<>>
    /\ panelEvents' = <<>>
    /\ UNCHANGED <<groupVars, m_Loaded, position, m_Size, layout, distanceToSide,
                   callbackID, m_MouseDown, m_DraggingPosition, hist>>

\* Panel::mouseOnObject(x, y): the point is on the panel's rectangle.
panelMouseOnObject(x, y) ==
    /\ position.x <= x /\ x < position.x + m_Size.x
    /\ position.y <= y /\ y < position.y + m_Size.y

\* Panel::mouseOnObject(x, y - m_TitleBarHeight): the hit test as the
\* embedded Panel receives it.
panelHitTest(x, y) ==
    <<[type |-> "mouseOnObject", x |-> x, y |-> y - m_TitleBarHeight]>>

\* m_EventManager.mouseNotOnObject(): no child of the window is hovered.
mouseNotOnObject ==
    [id \in DOMAIN heap |->
        IF id \in Children(Win) THEN [heap[id] EXCEPT !.m_MouseHover = FALSE]
        ELSE heap[id]]

\* ChildWindow::mouseOnObject(x, y)
mouseOnObject(x, y) ==
    IF m_Loaded = FALSE
    THEN /\ returned' = FALSE
         /\ fx' = <<"return">>
         /\ panelEvents' = <<>>
         /\ UNCHANGED heap
    ELSE IF titleBarContains(x, y)
    THEN /\ returned' = TRUE
         /\ fx' = <<"m_EventManager.mouseNotOnObject", "return">>
         /\ panelEvents' = <<>>
         /\ heap' = mouseNotOnObject
    ELSE /\ returned' = panelMouseOnObject(panelHitTest(x, y)[1].x, panelHitTest(x, y)[1].y)
         /\ fx' = <<"Panel::mouseOnObject">>
         /\ panelEvents' = panelHitTest(x, y)
         /\ UNCHANGED heap

MouseOnObject(x, y) ==
    /\ Alive
    /\ mouseOnObject(x, y)
    /\ call' = [op |-> "mouseOnObject", x |-> x, y |-> y]
    /\ UNCHANGED <<m_Objects, m_ObjName, callbackQueue, winVars, hist>>

\* -------------------------------------------------- Group: the other calls

\* The type parameter T of a call: a concrete kind or the Panel that
\* ChildWindow derives from. Bases(kind): the T a widget of that kind is.
Types == Kinds \cup {"Panel"}
Bases(kind) == IF kind = "ChildWindow" THEN {"ChildWindow", "Panel"} ELSE {kind}

\* new T(*oldObject): a T, built by T's copy constructor from the part of the
\* old object that is a T, the parent back-reference and what initialize()
\* set up included. A copy has not been given the focus or the mouse.
clone(T, oldObject) ==
    [heap[oldObject] EXCEPT !.kind = T, !.m_Focused = FALSE, !.m_MouseHover = FALSE]

\* The body shared by both Group::copy overloads once the old object is known.
copyObject(g, T, oldObject, newObjectName) ==
    LET newObject == NewObject
    IN  /\ heap' = (newObject :> clone(T, oldObject)) @@ heap
        /\ m_Objects' = push_back(m_Objects, g, newObject)
        /\ m_ObjName' = push_back(m_ObjName, g, newObjectName)
        /\ returned' = newObject

\* Group::copy(T* oldObject, newObjectName)
CopyObject(g, T, oldObject, newObjectName) ==
    /\ Len(m_Objects[g]) < MaxObjects
    /\ NewObject <= MaxId
    /\ oldObject \in DOMAIN heap
    /\ T \in Bases(heap[oldObject].kind)
    /\ copyObject(g, T, oldObject, newObjectName)
    /\ call' = [op |-> "copy", by |-> "handle", group |-> g, T |-> T,
                source |-> oldObject, name |-> newObjectName]
    /\ hist' = scenarioAfter(g, "copy", newObjectName)
    /\ UNCHANGED <<callbackQueue, winVars, fx, panelEvents>>

\* A copy by name that takes the last child of that name.
copySourceFromBack(g, oldObjectName) == ScanLast(m_ObjName[g], oldObjectName, Len(m_ObjName[g]))

\* The loop of Group::copy(oldObjectName, newObjectName): the index it stops at.
copySource(g, oldObjectName) == Scan(m_ObjName[g], oldObjectName, 1)

\* Group::copy<T>(oldObjectName, newObjectName)
CopyName(g, T, oldObjectName, newObjectName) ==
    LET i == copySource(g, oldObjectName)
    IN  /\ IF i = 0
           THEN /\ returned' = NULL
                /\ UNCHANGED <<m_Objects, m_ObjName, heap>>
           ELSE /\ Len(m_Objects[g]) < MaxObjects
                /\ NewObject <= MaxId
                /\ T \in Bases(heap[m_Objects[g][i]].kind)
                /\ copyObject(g, T, m_Objects[g][i], newObjectName)
        /\ call' = [op |-> "copy", by |-> "name", group |-> g, T |-> T,
                    source |-> IF i = 0 THEN NULL ELSE m_Objects[g][i],
                    oldName |-> oldObjectName, name |-> newObjectName]
        /\ hist' = scenarioAfter(g, "copy", newObjectName)
        /\ UNCHANGED <<callbackQueue, winVars, fx, panelEvents>>

\* A removal by name that removes nothing.
removeNothing(vec, g, objectName) == vec

\* A removal by name that takes every child of that name.
removeEveryName(vec, g, objectName) ==
    LET keep == {i \in 1..Len(m_ObjName[g]) : m_ObjName[g][i] # objectName}
        RECURSIVE Pick(_)
        Pick(i) == IF i > Len(vec[g]) THEN <<>>
                   ELSE (IF i \in keep THEN <<vec[g][i]>> ELSE <<>>) \o Pick(i + 1)
    IN  [vec EXCEPT ![g] = Pick(1)]

\* Group::remove(objectName): the first child of that name and its name leave
\* the container; a name no child has changes nothing.
removeName(vec, g, objectName) ==
    LET i == Scan(m_ObjName[g], objectName, 1)
    IN  IF i = 0 THEN vec ELSE [vec EXCEPT ![g] = Without(@, i)]

RemoveName(g, objectName) ==
    /\ m_Objects' = removeName(m_Objects, g, objectName)
    /\ m_ObjName' = removeName(m_ObjName, g, objectName)
    /\ heap' = Delete(heap, Children(g) \ {m_Objects'[g][i] : i \in 1..Len(m_Objects'[g])})
    /\ returned' = NULL
    /\ call' = [op |-> "remove", by |-> "name", group |-> g, name |-> objectName,
                object |-> get(g, objectName)]
    /\ hist' = scenarioAfter(g, "remove", objectName)
    /\ UNCHANGED <<callbackQueue, winVars, fx, panelEvents>>

\* Group::remove(OBJECT* object)
RemoveObject(g, object) ==
    /\ m_Objects' = removeObject(m_Objects, g, object)
    /\ m_ObjName' = removeObject(m_ObjName, g, object)
    /\ heap' = Delete(heap, Children(g) \cap {object})
    /\ returned' = NULL
    /\ call' = [op |-> "remove", by |-> "handle", group |-> g, object |-> object]
    /\ hist' = scenarioAfter(g, "removeObject", "")
    /\ UNCHANGED <<callbackQueue, winVars, fx, panelEvents>>

\* Group::removeAllObjects()
RemoveAllObjects(g) ==
    /\ m_Objects' = removeAllObjects(m_Objects, g)
    /\ m_ObjName' = removeAllObjects(m_ObjName, g)
    /\ heap' = Delete(heap, Children(g) \ {m_Objects'[g][i] : i \in 1..Len(m_Objects'[g])})
    /\ returned' = NULL
    /\ call' = [op |-> "removeAllObjects", group |-> g, count |-> Len(m_Objects[g])]
    /\ hist' = scenarioAfter(g, "removeAllObjects", "")
    /\ UNCHANGED <<callbackQueue, winVars, fx, panelEvents>>

\* A focus that leaves the previously focused child as it was.
focusedKeepsPrevious(g, object) ==
    [id \in DOMAIN heap |-> IF id = object THEN [heap[id] EXCEPT !.m_Focused = TRUE]
                            ELSE heap[id]]

\* Group::focus(object): the child is focused and the child of this container
\* that was focused before is not.
focused(g, object) ==
    [id \in DOMAIN heap |-> IF id = object THEN [heap[id] EXCEPT !.m_Focused = TRUE]
                            ELSE IF id \in Children(g)
                            THEN [heap[id] EXCEPT !.m_Focused = FALSE]
                            ELSE heap[id]]

Focus(g, object) ==
    /\ object \in Children(g)
    /\ heap' = focused(g, object)
    /\ returned' = NULL
    /\ call' = [op |-> "focus", group |-> g, object |-> object,
                previous |-> {c \in Children(g) : heap[c].m_Focused}]
    /\ hist' = scenarioAfter(g, "focus", "")
    /\ UNCHANGED <<m_Objects, m_ObjName, callbackQueue, winVars, fx, panelEvents>>

\* Group::unfocus(object)
unfocused(g, object) == [heap EXCEPT ![object].m_Focused = FALSE]

Unfocus(g, object) ==
    /\ object \in Children(g)
    /\ heap' = unfocused(g, object)
    /\ returned' = NULL
    /\ call' = [op |-> "unfocus", group |-> g, object |-> object]
    /\ hist' = scenarioAfter(g, "unfocus", "")
    /\ UNCHANGED <<m_Objects, m_ObjName, callbackQueue, winVars, fx, panelEvents>>

\* A move to the front that swaps the child with the one in front.
swapWithFront(vec, g, object) ==
    LET i == IndexOf(m_Objects[g], object, 1)
        n == Len(vec[g])
    IN  IF i = 0 THEN vec
        ELSE [vec EXCEPT ![g] = [k \in 1..n |-> IF k = i THEN @[n]
                                                ELSE IF k = n THEN @[i] ELSE @[k]]]

\* Group::moveObjectToFront(object): the child, and its name with it, goes to
\* the end of the sequence.
moveObjectToFront(vec, g, object) ==
    LET i == IndexOf(m_Objects[g], object, 1)
    IN  IF i = 0 THEN vec ELSE [vec EXCEPT ![g] = Append(Without(@, i), @[i])]

\* Group::moveObjectToBack(object): the child, and its name with it, goes to
\* the start of the sequence.
moveObjectToBack(vec, g, object) ==
    LET i == IndexOf(m_Objects[g], object, 1)
    IN  IF i = 0 THEN vec ELSE [vec EXCEPT ![g] = <<@[i]>> \o Without(@, i)]

MoveObjectToFront(g, object) ==
    /\ object \in Children(g)
    /\ m_Objects' = moveObjectToFront(m_Objects, g, object)
    /\ m_ObjName' = moveObjectToFront(m_ObjName, g, object)
    /\ returned' = NULL
    /\ call' = [op |-> "moveObjectToFront", group |-> g, object |-> object,
                from |-> IndexOf(m_Objects[g], object, 1)]
    /\ hist' = scenarioAfter(g, "moveObjectToFront", "")
    /\ UNCHANGED <<heap, callbackQueue, winVars, fx, panelEvents>>

\* A moveObjectToBack that moves the child and leaves the names where they are.
MoveObjectToBackNamesStay(g, object) ==
    /\ object \in Children(g)
    /\ m_Objects' = moveObjectToBack(m_Objects, g, object)
    /\ returned' = NULL
    /\ call' = [op |-> "moveObjectToBack", group |-> g, object |-> object,
                from |-> IndexOf(m_Objects[g], object, 1)]
    /\ hist' = scenarioAfter(g, "moveObjectToBack", "")
    /\ UNCHANGED <<m_ObjName, heap, callbackQueue, winVars, fx, panelEvents>>

MoveObjectToBack(g, object) ==
    /\ object \in Children(g)
    /\ m_Objects' = moveObjectToBack(m_Objects, g, object)
    /\ m_ObjName' = moveObjectToBack(m_ObjName, g, object)
    /\ returned' = NULL
    /\ call' = [op |-> "moveObjectToBack", group |-> g, object |-> object,
                from |-> IndexOf(m_Objects[g], object, 1)]
    /\ hist' = scenarioAfter(g, "moveObjectToBack", "")
    /\ UNCHANGED <<heap, callbackQueue, winVars, fx, panelEvents>>

\* Group::drawObjectGroup: the children in the order they are drawn.
drawOrder(g) == m_Objects[g]

\* The order in which the dispatcher asks the children "is the pointer over
\* you?": frontmost first.
hitTestOrder(g) == [k \in 1..Len(m_Objects[g]) |-> m_Objects[g][Len(m_Objects[g]) + 1 - k]]

\* ------------------------------------------------ EventManager: routing

\* The hit test of a child: the pointer is inside its rectangle.
widgetMouseOnObject(id, x, y) ==
    /\ heap[id].position.x <= x /\ x < heap[id].position.x + heap[id].size.x
    /\ heap[id].position.y <= y /\ y < heap[id].position.y + heap[id].size.y

\* The first child of `order` that answers yes, NULL when none does.
RECURSIVE ScanHit(_, _, _, _)
ScanHit(order, x, y, k) ==
    IF k > Len(order) THEN NULL
    ELSE IF widgetMouseOnObject(order[k], x, y) THEN order[k]
    ELSE ScanHit(order, x, y, k + 1)

\* A scan that asks the child at the back first.
targetBackmost(g, x, y) == ScanHit(drawOrder(g), x, y, 1)

\* The child a pointer event is for: the scan goes frontmost first and stops at
\* the first yes.
target(g, x, y) == ScanHit(hitTestOrder(g), x, y, 1)

\* The call a child receives for an event.
handler(type) ==
    CASE type = "MouseMoved" -> "mouseMoved"
      [] type = "MouseButtonPressed" -> "leftMousePressed"
      [] type = "MouseButtonReleased" -> "leftMouseReleased"

\* The same calls with the event delivered before the children that lose the
\* mouse are told.
notificationsEnterFirst(g, type, x, y) ==
    LET hit == target(g, x, y)
        lost == SelectSeq(hitTestOrder(g), LAMBDA c : heap[c].m_MouseHover /\ c # hit)
    IN  (IF hit # NULL THEN <<[object |-> hit, fn |-> handler(type)]>> ELSE <<>>)
        \o (IF type = "MouseMoved"
            THEN [k \in 1..Len(lost) |-> [object |-> lost[k], fn |-> "mouseNotOnObject"]]
            ELSE <<>>)

\* The calls one pointer event makes on the children, in order: on a move the
\* children that lose the mouse are told first ("mouse no longer on object"),
\* then the child the event is for receives it.
notifications(g, type, x, y) ==
    LET hit == target(g, x, y)
        lost == SelectSeq(hitTestOrder(g), LAMBDA c : heap[c].m_MouseHover /\ c # hit)
    IN  (IF type = "MouseMoved"
         THEN [k \in 1..Len(lost) |-> [object |-> lost[k], fn |-> "mouseNotOnObject"]]
         ELSE <<>>)
        \o (IF hit # NULL THEN <<[object |-> hit, fn |-> handler(type)]>> ELSE <<>>)

\* The hover flags after a move: only the child the move is for is hovered.
hoverAfter(g, type, x, y) ==
    IF type # "MouseMoved" THEN heap
    ELSE [id \in DOMAIN heap |->
            IF id \in Children(g)
            THEN [heap[id] EXCEPT !.m_MouseHover = (id = target(g, x, y))]
            ELSE heap[id]]

\* A pointer event delivered to the container g.
RouteEvent(g, type, mouseX, mouseY) ==
    /\ fx' = notifications(g, type, mouseX, mouseY)
    /\ heap' = hoverAfter(g, type, mouseX, mouseY)
    /\ returned' = NULL
    /\ call' = [op |-> "EventManager::handleEvent", group |-> g, type |-> type,
                x |-> mouseX, y |-> mouseY]
    /\ hist' = scenarioAfter(g, "handleEvent", "")
    /\ UNCHANGED <<m_Objects, m_ObjName, callbackQueue, winVars, panelEvents>>

\* ------------------------------------------------------------------ float
\* The layout computes in `float`.  A float is a record [c, m, e]: a finite
\* value m * 2^e (m odd and below 2^24 in magnitude, or m = 0 and e = 0), an
\* infinity (c = "inf", m its sign) or a NaN.  Every operation rounds its exact
\* result to the nearest float, ties to the even significand.
Significand == 2^24
Fin(m, e) == [c |-> "fin", m |-> m, e |-> e]
Inf(sign) == [c |-> "inf", m |-> sign, e |-> 0]
NaN == [c |-> "nan", m |-> 0, e |-> 0]
Abs(n) == IF n < 0 THEN -n ELSE n
Sign(n) == IF n < 0 THEN -1 ELSE IF n > 0 THEN 1 ELSE 0

RECURSIVE canonical(_, _)
canonical(m, e) ==
    IF m = 0 THEN Fin(0, 0)
    ELSE IF m % 2 = 0 THEN canonical(m \div 2, e + 1)
    ELSE Fin(m, e)

\* The low bits a magnitude has beyond the 24 a float keeps.
RECURSIVE excess(_)
excess(a) == IF a < Significand THEN 0 ELSE 1 + excess(a \div 2)

\* The float nearest to n * 2^e.
round(n, e) ==
    LET a == Abs(n)
        s == excess(a)
        q == a \div 2^s
        r == a % 2^s
        up == s > 0 /\ (2 * r > 2^s \/ (2 * r = 2^s /\ q % 2 = 1))
    IN  canonical(Sign(n) * (IF up THEN q + 1 ELSE q), e + s)

float(n) == canonical(n, 0)
fneg(a) == [a EXCEPT !.m = -@]

fadd(a, b) ==
    IF a.c = "nan" \/ b.c = "nan" THEN NaN
    ELSE IF a.c = "inf" THEN (IF b.c = "inf" /\ b.m # a.m THEN NaN ELSE a)
    ELSE IF b.c = "inf" THEN b
    ELSE IF a.m = 0 THEN b
    ELSE IF b.m = 0 THEN a
    ELSE LET e == IF a.e < b.e THEN a.e ELSE b.e
         IN  round(a.m * 2^(a.e - e) + b.m * 2^(b.e - e), e)

fsub(a, b) == fadd(a, fneg(b))

fmul(a, b) ==
    IF a.c = "nan" \/ b.c = "nan" THEN NaN
    ELSE IF a.c = "inf" \/ b.c = "inf"
         THEN (IF a.m = 0 \/ b.m = 0 THEN NaN ELSE Inf(Sign(a.m) * Sign(b.m)))
    ELSE round(a.m * b.m, a.e + b.e)

\* The shift that brings a magnitude just below 2^30.
RECURSIVE headroom(_)
headroom(a) == IF 2 * a >= 2^30 THEN 0 ELSE 1 + headroom(2 * a)

\* a / b: x / 0 is an infinity, 0 / 0 is a NaN.  The quotient is taken to 30
\* bits with the remainder folded into a last sticky bit, which rounds
\* correctly for the divisors that occur (significands below 32).
fdiv(a, b) ==
    IF a.c = "nan" \/ b.c = "nan" THEN NaN
    ELSE IF a.c = "inf" THEN (IF b.c = "inf" THEN NaN
                              ELSE Inf(a.m * (IF b.m < 0 THEN -1 ELSE 1)))
    ELSE IF b.c = "inf" THEN Fin(0, 0)
    ELSE IF b.m = 0 THEN (IF a.m = 0 THEN NaN ELSE Inf(Sign(a.m)))
    ELSE IF a.m = 0 THEN Fin(0, 0)
    ELSE LET k == headroom(Abs(a.m))
             n == Abs(a.m) * 2^k
             q == n \div Abs(b.m)
             sticky == IF n % Abs(b.m) = 0 THEN 0 ELSE 1
         IN  round(Sign(a.m) * Sign(b.m) * (2 * q + sticky), a.e - b.e - k - 1)

\* ------------------------------------------------------- HorizontalLayout
\* The layout is the object LayoutId of the heap:
\*   [m_size, m_layoutWidgets, m_widgetsRatio, m_widgetsFixedSizes]
\* and its children are heap objects with a position and a size.
LayoutId == NULL + 1
Vector2f(x, y) == [x |-> x, y |-> y]
isZero(f) == f.c = "fin" /\ f.m = 0

\* std::accumulate(first, last, 0.f)
RECURSIVE accumulate(_, _, _)
accumulate(s, i, acc) ==
    IF i > Len(s) THEN acc ELSE accumulate(s, i + 1, fadd(acc, s[i]))

sumFixedSize(l) == accumulate(l.m_widgetsFixedSizes, 1, float(0))

\* The sum of every ratio, those of the fixed children included.
sumAllRatios(l) == accumulate(l.m_widgetsRatio, 1, float(0))

\* The first loop: the ratios of the children that have no fixed size.
RECURSIVE sumRatioFrom(_, _, _)
sumRatioFrom(l, i, acc) ==
    IF i > Len(l.m_widgetsRatio) THEN acc
    ELSE sumRatioFrom(l, i + 1,
             IF isZero(l.m_widgetsFixedSizes[i])
             THEN fadd(acc, l.m_widgetsRatio[i]) ELSE acc)

sumRatio(l) == sumRatioFrom(l, 1, float(0))

\* m_size.x - sumFixedSize
remaining(l) == fsub(l.m_size.x, sumFixedSize(l))

\* A position that leaves out the fixed sizes passed so far.
axisPositionOfRatiosOnly(l, currentRatio, currentOffset) ==
    fmul(remaining(l), currentRatio)

\* (m_size.x - sumFixedSize) * currentRatio + currentOffset
axisPosition(l, currentRatio, currentOffset) ==
    fadd(fmul(remaining(l), currentRatio), currentOffset)

\* (m_size.x - sumFixedSize) * m_widgetsRatio[i] / sumRatio
ratioSize(l, i) == fdiv(fmul(remaining(l), l.m_widgetsRatio[i]), sumRatio(l))

\* A fixed child sized as if it were a ratio child.
fixedSizeAsShare(l, i) == ratioSize(l, i)

\* The size a fixed child is given.
fixedSize(l, i) == l.m_widgetsFixedSizes[i]

\* A test that takes a child for fixed only if it has no ratio either.
hasFixedSizeAndNoRatio(l, i) ==
    ~isZero(l.m_widgetsFixedSizes[i]) /\ isZero(l.m_widgetsRatio[i])

\* if (m_widgetsFixedSizes[i])
hasFixedSize(l, i) == ~isZero(l.m_widgetsFixedSizes[i])

\* The second loop from child i on, over the heap h.
RECURSIVE placeFrom(_, _, _, _, _)
placeFrom(h, l, i, currentRatio, currentOffset) ==
    IF i > Len(l.m_layoutWidgets) THEN h
    ELSE LET w == l.m_layoutWidgets[i]
             at == Vector2f(axisPosition(l, currentRatio, currentOffset), float(0))
         IN  IF hasFixedSize(l, i)
             THEN placeFrom([h EXCEPT ![w].position = at,
                                      ![w].size = Vector2f(fixedSize(l, i), l.m_size.y)],
                            l, i + 1, currentRatio,
                            fadd(currentOffset, l.m_widgetsFixedSizes[i]))
             ELSE placeFrom([h EXCEPT ![w].position = at,
                                      ![w].size = Vector2f(ratioSize(l, i), l.m_size.y)],
                            l, i + 1,
                            fadd(currentRatio, fdiv(l.m_widgetsRatio[i], sumRatio(l))),
                            currentOffset)

updateWidgetPositions(h) == placeFrom(h, h[LayoutId], 1, float(0), float(0))

\* The calls that change what the layout is computed from; each ends with a
\* layout pass.
LayoutCall(h, op) ==
    /\ heap' = updateWidgetPositions(h)
    /\ call' = [op |-> op]
    /\ UNCHANGED <<m_Objects, m_ObjName, callbackQueue, winVars,
                   returned, fx, panelEvents, hist>>

\* add(widget): a new last child with ratio 1 and no fixed size.
LayoutAdd ==
    LET l == heap[LayoutId]
        w == LayoutId + Len(l.m_layoutWidgets) + 1
        child == [kind |-> "Button", position |-> Vector2f(float(0), float(0)),
                  size |-> Vector2f(float(0), float(0))]
    IN  LayoutCall((w :> child) @@
                   [heap EXCEPT ![LayoutId].m_layoutWidgets = Append(@, w),
                                ![LayoutId].m_widgetsRatio = Append(@, float(1)),
                                ![LayoutId].m_widgetsFixedSizes = Append(@, float(0))],
                   "add")

SetRatio(index, ratio) ==
    LayoutCall([heap EXCEPT ![LayoutId].m_widgetsRatio[index] = float(ratio)],
               "setRatio")

SetFixedSize(index, size) ==
    LayoutCall([heap EXCEPT ![LayoutId].m_widgetsFixedSizes[index] = float(size)],
               "setFixedSize")

SetSize(width, height) ==
    LayoutCall([heap EXCEPT ![LayoutId].m_size = Vector2f(float(width), float(height))],
               "setSize")

\* --------------------------------------------------------------- Slider2D
\* The slider is the object SliderId of the heap:
\*   [m_Minimum, m_Maximum, m_Value, returnToCenter, m_MouseDown]
\* with Vector2f bounds and value.
SliderId == NULL + 1

\* a <= b on finite floats.
fle(a, b) ==
    LET e == IF a.e < b.e THEN a.e ELSE b.e
    IN  a.m * 2^(a.e - e) <= b.m * 2^(b.e - e)

\* A component that is only kept from falling below the minimum.
clampFromBelow(v, minimum, maximum) ==
    IF ~fle(minimum, v) THEN minimum ELSE v

\* One component brought into [minimum, maximum].
clamp(v, minimum, maximum) ==
    IF ~fle(minimum, v) THEN minimum
    ELSE IF ~fle(v, maximum) THEN maximum
    ELSE v

\* The value brought into the slider's bounds, each axis on its own.
clamped(s, v) ==
    Vector2f(clamp(v.x, s.m_Minimum.x, s.m_Maximum.x),
             clamp(v.y, s.m_Minimum.y, s.m_Maximum.y))

setValue(s, value) == [s EXCEPT !.m_Value = clamped(s, value)]

\* A new minimum that leaves the value where it is.
setMinimumOnly(s, minimum) == [s EXCEPT !.m_Minimum = minimum]

setMinimum(s, minimum) ==
    LET bounded == [s EXCEPT !.m_Minimum = minimum]
    IN  [bounded EXCEPT !.m_Value = clamped(bounded, s.m_Value)]

setMaximum(s, maximum) ==
    LET bounded == [s EXCEPT !.m_Maximum = maximum]
    IN  [bounded EXCEPT !.m_Value = clamped(bounded, s.m_Value)]

midpoint(a, b) == fdiv(fadd(a, b), float(2))

\* A thumb sent to the origin whatever the bounds are.
centerThumbAtOrigin(s) == [s EXCEPT !.m_Value = Vector2f(float(0), float(0))]

centerThumb(s) ==
    [s EXCEPT !.m_Value = Vector2f(midpoint(s.m_Minimum.x, s.m_Maximum.x),
                                   midpoint(s.m_Minimum.y, s.m_Maximum.y))]

\* While the button is down the value follows the cursor; `value` is the
\* value the cursor position maps to.
sliderMouseMoved(s, value) == IF s.m_MouseDown THEN setValue(s, value) ELSE s

sliderLeftMousePressed(s, value) ==
    sliderMouseMoved([s EXCEPT !.m_MouseDown = TRUE], value)

sliderLeftMouseReleased(s) ==
    LET released == [s EXCEPT !.m_MouseDown = FALSE]
    IN  IF s.returnToCenter THEN centerThumb(released) ELSE released

\* A call on the slider: `after` is the slider the call leaves.
SliderCall(op, arg, after) ==
    /\ heap' = [heap EXCEPT ![SliderId] = after]
    /\ call' = [op |-> op, arg |-> arg, before |-> heap[SliderId]]
    /\ UNCHANGED <<m_Objects, m_ObjName, callbackQueue, winVars,
                   returned, fx, panelEvents, hist>>

SetMinimum(minimum) ==
    SliderCall("setMinimum", minimum, setMinimum(heap[SliderId], minimum))
SetMaximum(maximum) ==
    SliderCall("setMaximum", maximum, setMaximum(heap[SliderId], maximum))
SetValue(value) ==
    SliderCall("setValue", value, setValue(heap[SliderId], value))
SetReturnToCenter(flag) ==
    SliderCall("returnToCenter", flag, [heap[SliderId] EXCEPT !.returnToCenter = flag])
SliderLeftMousePressed(value) ==
    SliderCall("leftMousePressed", value, sliderLeftMousePressed(heap[SliderId], value))
SliderMouseMoved(value) ==
    SliderCall("mouseMoved", value, sliderMouseMoved(heap[SliderId], value))
SliderLeftMouseReleased ==
    SliderCall("leftMouseReleased", NULL, sliderLeftMouseReleased(heap[SliderId]))

\* ----------------------------------------------- ChildWindow: copy, assignment
\* Two ChildWindow objects a and b on the heap, each owning the Button its
\* m_CloseButton points to. A Button keeps count of the deletes it received.

\* Buttons one behaviour may allocate.
MaxButtons == 4

WindowA == NULL + 1
WindowB == NULL + 2
Windows == {WindowA, WindowB}
Buttons(h) == {id \in DOMAIN h : h[id].kind = "Button"}

\* new tgui::Button(), and new tgui::Button(*other)
ButtonObject(loaded) == [kind |-> "Button", m_Loaded |-> loaded, deleted |-> 0]
ButtonCopy(other) == ButtonObject(other.m_Loaded)

\* delete m_CloseButton
delete(h, button) == [h EXCEPT ![button].deleted = @ + 1]

\* ChildWindow::ChildWindow(const ChildWindow&): the members, and a close
\* button of its own copied from the other window's. The result is the heap
\* with the new Button, and the new window.
copyConstructor(h, childWindowToCopy, newButton) ==
    [heap |-> (newButton :> ButtonCopy(h[h[childWindowToCopy].m_CloseButton])) @@ h,
     window |-> [h[childWindowToCopy] EXCEPT !.m_CloseButton = newButton]]

\* ChildWindow::~ChildWindow()
destructor(h, window) == delete(h, window.m_CloseButton)

\* ChildWindow::operator=(right) on the window `this`: the heap it leaves.
assign(h, this, right, newButton) ==
    IF this = right THEN h
    ELSE LET copied == copyConstructor(h, right, newButton)
             temp == copied.window
             deleted == delete(copied.heap, copied.heap[this].m_CloseButton)
             swapped == [deleted EXCEPT ![this] = temp]
             tempAfterSwap == deleted[this]
         IN  destructor(swapped, tempAfterSwap)

\* A delete of a Button already deleted is undefined: the call returns, or
\* the program ends in it.
Outcomes(h) ==
    IF \E button \in Buttons(h) : h[button].deleted > 1
    THEN {"returns", "aborts"} ELSE {"returns"}

Running == ~(call.op = "operator=" /\ call.outcome = "aborts")

\* a = b, for this and right among the two windows
Assign(this, right) ==
    LET newButton == 1 + CHOOSE m \in DOMAIN heap : \A k \in DOMAIN heap : k <= m
        after == assign(heap, this, right, newButton)
    IN  /\ Running
        /\ Cardinality(Buttons(heap)) < MaxButtons
        /\ heap' = after
        /\ \E outcome \in Outcomes(after) :
              call' = [op |-> "operator=", this |-> this, right |-> right,
                       before |-> heap, outcome |-> outcome]
        /\ UNCHANGED <<m_Objects, m_ObjName, callbackQueue, winVars,
                       returned, fx, panelEvents, hist>>

\* The public members layout and distanceToSide, set by the window's user.
SetMembers(this, newLayout, newDistance) ==
    /\ Running
    /\ heap' = [heap EXCEPT ![this].layout = newLayout,
                            ![this].distanceToSide = newDistance]
    /\ call' = [op |-> "members", this |-> this]
    /\ UNCHANGED <<m_Objects, m_ObjName, callbackQueue, winVars,
                   returned, fx, panelEvents, hist>>

\* ---------------------------------------------------------- specifications

NewButton ==
    [position |-> Origin, size |-> Origin, scale |-> 1, m_MouseDown |-> FALSE,
     m_Loaded |-> FALSE]

\* A ChildWindow as its constructor leaves it.
InitWindow ==
    /\ m_Loaded = FALSE
    /\ position = Origin
    /\ m_Size = Origin
    /\ m_TitleBarHeight = 0
    /\ layout = "LayoutRight"
    /\ distanceToSide = DefaultDistanceToSide
    /\ m_MouseDown = FALSE
    /\ m_DraggingPosition = Origin
    /\ m_CloseButton = NewButton

InitObs ==
    /\ call = [op |-> "none"]
    /\ returned = NULL
    /\ fx = <<>>
    /\ panelEvents = <<>>
    /\ hist = [armed |-> FALSE, prev |-> FALSE, drag |-> FALSE, off |-> Origin,
               stage |-> 0, name |-> "", id |-> NULL, fresh |-> FALSE]

\* The window between `before` and `after` siblings in its parent, holding
\* `inside` widgets of its own, every one placed by Group::add.
Tree(before, after, inside) ==
    LET sib == 1..(before + after)
        kids == 1..inside
    IN  /\ m_Objects = (Root :> ([i \in 1..before |-> WinId + i] \o <<WinId>>
                                 \o [i \in 1..after |-> WinId + before + i])
                        @@ Win :> [i \in kids |-> WinId + before + after + i])
        /\ m_ObjName = (Root :> [i \in 1..(before + after + 1) |-> ""]
                        @@ Win :> [i \in kids |-> ""])
        /\ heap = [id \in WinId..(WinId + before + after + inside) |->
                     IF id = WinId THEN Widget("ChildWindow", Root)
                     ELSE IF id <= WinId + before + after THEN Widget("Button", Root)
                     ELSE Widget("Button", Win)]

InitCW ==
    /\ Tree(1, 1, 2)
    /\ callbackQueue = <<>>
    /\ callbackID \in {0, 1}
    /\ InitWindow
    /\ InitObs

NextCW ==
    \/ \E type \in EventTypes, x \in Xs, y \in Ys : HandleEvent(type, x, y)
    \/ \E outcome \in LoadOutcomes, layoutProp \in LayoutProps, distProp \in DistProps :
          Load("theme", outcome, layoutProp, distProp)
    \/ Load("", "NoInfoFile", "none", "0")

SpecCW == InitCW /\ [][NextCW]_vars

InitGroup ==
    /\ m_Objects = [g \in Groups |-> <<>>]
    /\ m_ObjName = [g \in Groups |-> <<>>]
    /\ heap = <<>>
    /\ callbackQueue = <<>>
    /\ callbackID = 0
    /\ InitWindow
    /\ InitObs

NextGroup ==
    \/ \E kind \in Kinds, name \in Names : Add(Root, kind, name)
    \/ \E name \in Names : Get(Root, name)

SpecGroup == InitGroup /\ [][NextGroup]_vars

\* Every call of a container, on the container Root. The children added are
\* ChildWindows, given the default name or "a"; lookups and removals also ask
\* for a name no child has. A copy is asked for as the kind the old object has.
Handles == (WinId + 1)..MaxId
GivenNames == {"", "a"}

NextContainer ==
    \/ \E name \in GivenNames : Add(Root, "ChildWindow", name)
    \/ \E name \in Names : Get(Root, name)
    \/ \E object \in Handles, name \in GivenNames :
          CopyObject(Root, "ChildWindow", object, name)
    \/ \E oldName \in Names, name \in GivenNames :
          CopyName(Root, "ChildWindow", oldName, name)
    \/ \E name \in Names : RemoveName(Root, name)
    \/ \E object \in Handles : RemoveObject(Root, object)
    \/ RemoveAllObjects(Root)
    \/ \E object \in Handles : Focus(Root, object)
    \/ \E object \in Handles : Unfocus(Root, object)
    \/ \E object \in Handles : MoveObjectToFront(Root, object)
    \/ \E object \in Handles : MoveObjectToBack(Root, object)

SpecContainer == InitGroup /\ [][NextContainer]_vars

\* The copies of a container of Buttons and ChildWindows, asked for as any T
\* the old object is: its own kind or a base of it.
NextCopy ==
    \/ \E kind \in Kinds, name \in GivenNames : Add(Root, kind, name)
    \/ \E T \in Types, object \in Handles, name \in GivenNames :
          CopyObject(Root, T, object, name)
    \/ \E T \in Types, oldName \in Names, name \in GivenNames :
          CopyName(Root, T, oldName, name)
    \/ \E name \in Names : RemoveName(Root, name)
    \/ RemoveAllObjects(Root)

SpecCopy == InitGroup /\ [][NextCopy]_vars

\* A container of three children placed by setPosition / setSize after the
\* add, so that their rectangles may overlap.
Places == {Point(0, 0), Point(1, 0)}
Sizes == {Point(1, 1), Point(2, 2)}

InitRoute ==
    /\ \E place \in [1..3 -> Places], extent \in [1..3 -> Sizes] :
          heap = [id \in (WinId + 1)..(WinId + 3) |->
                    [Widget("Button", Root) EXCEPT !.position = place[id - WinId],
                                                   !.size = extent[id - WinId]]]
    /\ m_Objects = (Root :> [i \in 1..3 |-> WinId + i] @@ Win :> <<>>)
    /\ m_ObjName = (Root :> [i \in 1..3 |-> ""] @@ Win :> <<>>)
    /\ callbackQueue = <<>>
    /\ callbackID = 0
    /\ InitWindow
    /\ InitObs

NextRoute ==
    \/ \E type \in EventTypes, x \in Xs, y \in Ys : RouteEvent(Root, type, x, y)
    \/ \E object \in Handles : MoveObjectToFront(Root, object)

SpecRoute == InitRoute /\ [][NextRoute]_vars

\* The layout specification: one HorizontalLayout, built up by add and changed
\* by setRatio, setFixedSize and setSize.
LayoutSizes == {<<100, 20>>, <<300, 40>>}
Ratios == {0, 1, 2}
FixedSizes == {0, 60}

InitLayout ==
    /\ \E size \in LayoutSizes :
          heap = (LayoutId :> [kind |-> "HorizontalLayout",
                               m_size |-> Vector2f(float(size[1]), float(size[2])),
                               m_layoutWidgets |-> <<>>,
                               m_widgetsRatio |-> <<>>,
                               m_widgetsFixedSizes |-> <<>>])
    /\ m_Objects = (Root :> <<>> @@ Win :> <<>>)
    /\ m_ObjName = (Root :> <<>> @@ Win :> <<>>)
    /\ callbackQueue = <<>>
    /\ callbackID = 0
    /\ InitWindow
    /\ InitObs

NextLayout ==
    \/ Len(heap[LayoutId].m_layoutWidgets) < MaxWidgets /\ LayoutAdd
    \/ \E index \in 1..Len(heap[LayoutId].m_layoutWidgets), ratio \in Ratios :
          SetRatio(index, ratio)
    \/ \E index \in 1..Len(heap[LayoutId].m_layoutWidgets), size \in FixedSizes :
          SetFixedSize(index, size)
    \/ \E size \in LayoutSizes : SetSize(size[1], size[2])

SpecLayout == InitLayout /\ [][NextLayout]_vars

\* The slider specification: one Slider2D as its constructor leaves it, then
\* any calls with bounds and values from these.
Vec(p) == Vector2f(float(p[1]), float(p[2]))
SliderBounds == {Vec(<<-1, -1>>), Vec(<<1, 1>>), Vec(<<2, 0>>)}
SliderValues == {Vec(<<-2, 3>>), Vec(<<0, 0>>), Vec(<<1, -1>>)}

InitSlider ==
    /\ heap = (SliderId :> [kind |-> "Slider2D",
                            m_Minimum |-> Vec(<<-1, -1>>),
                            m_Maximum |-> Vec(<<1, 1>>),
                            m_Value |-> Vec(<<0, 0>>),
                            returnToCenter |-> TRUE,
                            m_MouseDown |-> FALSE])
    /\ m_Objects = (Root :> <<>> @@ Win :> <<>>)
    /\ m_ObjName = (Root :> <<>> @@ Win :> <<>>)
    /\ callbackQueue = <<>>
    /\ callbackID = 0
    /\ InitWindow
    /\ InitObs

NextSlider ==
    \/ \E minimum \in SliderBounds : SetMinimum(minimum)
    \/ \E maximum \in SliderBounds : SetMaximum(maximum)
    \/ \E value \in SliderValues : SetValue(value)
    \/ \E flag \in BOOLEAN : SetReturnToCenter(flag)
    \/ \E value \in SliderValues : SliderLeftMousePressed(value)
    \/ \E value \in SliderValues : SliderMouseMoved(value)
    \/ SliderLeftMouseReleased

SpecSlider == InitSlider /\ [][NextSlider]_vars

\* The window specification: a lone window with one child; events, hit
\* tests, loads that succeed or fail, and title bars of no height and of
\* twice the height of the TitleBar image.
Heights == {0, 2 * TitleBarImageHeight}

InitWindowCalls ==
    /\ Tree(0, 0, 1)
    /\ callbackQueue = <<>>
    /\ callbackID = 0
    /\ InitWindow
    /\ InitObs

NextWindowCalls ==
    \/ \E type \in EventTypes, x \in Xs, y \in Ys : HandleEvent(type, x, y)
    \/ \E x \in Xs, y \in Ys : MouseOnObject(x, y)
    \/ \E height \in Heights : SetTitlebarHeight(height)
    \/ \E outcome \in {"NoInfoFile", "Loaded"} : Load("theme", outcome, "none", "none")

SpecWindowCalls == InitWindowCalls /\ [][NextWindowCalls]_vars

\* The calls of a window other than events, with loads of every outcome and
\* loads given no pathname.
Pathnames == {"", "theme"}

InitLoad == InitWindowCalls

NextLoad ==
    \/ \E pathname \in Pathnames, outcome \in LoadOutcomes, layoutProp \in LayoutProps :
          Load(pathname, outcome, layoutProp, "none")
    \/ \E x \in Xs, y \in Ys : MouseOnObject(x, y)
    \/ \E height \in Heights : SetTitlebarHeight(height)

SpecLoad == InitLoad /\ [][NextLoad]_vars

\* Two windows as their constructors leave them, b's close button loaded or
\* not, then assignments between them (self-assignment included) and changes
\* of their public members.
InitAssign ==
    /\ \E loaded \in BOOLEAN :
          heap = (WindowA :> [kind |-> "ChildWindow", layout |-> "LayoutRight",
                              distanceToSide |-> DefaultDistanceToSide,
                              m_CloseButton |-> WindowB + 1]
                  @@ WindowB :> [kind |-> "ChildWindow", layout |-> "LayoutRight",
                                 distanceToSide |-> DefaultDistanceToSide,
                                 m_CloseButton |-> WindowB + 2]
                  @@ (WindowB + 1) :> ButtonObject(FALSE)
                  @@ (WindowB + 2) :> ButtonObject(loaded))
    /\ m_Objects = (Root :> <<>> @@ Win :> <<>>)
    /\ m_ObjName = (Root :> <<>> @@ Win :> <<>>)
    /\ callbackQueue = <<>>
    /\ callbackID = 0
    /\ InitWindow
    /\ InitObs

NextAssign ==
    \/ \E this \in Windows, right \in Windows : Assign(this, right)
    \/ \E this \in Windows, newLayout \in {"LayoutLeft", "LayoutRight"},
          newDistance \in {0, DefaultDistanceToSide} :
          SetMembers(this, newLayout, newDistance)

SpecAssign == InitAssign /\ [][NextAssign]_vars

\* Two containers, each given widgets by add and by copies of any widget
\* there is, in whichever container the widget is.
NextParent ==
    \/ \E g \in Groups, kind \in Kinds : Add(g, kind, "")
    \/ \E g \in Groups, T \in Types, object \in Handles : CopyObject(g, T, object, "")

SpecParent == InitGroup /\ [][NextParent]_vars

\* ------------------------------------------------------------- properties

Delivered(type) == call.op = "handleEvent" /\ call.type = type
Delivering(type) == call'.op = "handleEvent" /\ call'.type = type

\* The title-bar rectangle and the close button's hit region, from the
\* window's geometry: both exist once the window is loaded.
InTitleBarRect(x, y) ==
    /\ position.x <= x /\ x < position.x + m_Size.x
    /\ position.y <= y /\ y < position.y + m_TitleBarHeight
InTitleBar(x, y) == m_Loaded /\ InTitleBarRect(x, y)
InCloseRegion(x, y) == InTitleBar(x, y) /\ onCloseButton(x, y)
Closed == ~Alive
Position(seq, x) == IndexOf(seq, x, 1)

\* C1 as claimed: after a press on the title bar outside the close button at p
\* with the window at w, every mouse-move to m before the next release leaves
\* the window at m - (p - w).
C1_DragFollowsCursor ==
    (Delivered("MouseMoved") /\ hist.drag)
        => position = Point(call.x - hist.off.x, call.y - hist.off.y)

\* C1 amended: the same, for the latest such press and for a move delivered
\* while the window is loaded.
C1_DragFollowsCursorWhileLoaded ==
    (Delivered("MouseMoved") /\ hist.drag /\ m_Loaded)
        => position = Point(call.x - hist.off.x, call.y - hist.off.y)

C1_Witness ==
    /\ Delivered("MouseMoved") /\ hist.drag /\ m_Loaded
    /\ hist.off.x > 0
    /\ position = Point(call.x - hist.off.x, call.y - hist.off.y)
    /\ position.y > 0

\* C2: a press in the close button's hit region followed by a release in it
\* removes the window from its parent; the parent loses exactly that child.
C2_CloseRemovesWindow ==
    [][(Delivering("MouseButtonReleased") /\ hist.armed
            /\ InCloseRegion(call'.x, call'.y))
        => /\ Has(m_Objects[Root], WinId)
           /\ m_Objects'[Root] = SelectSeq(m_Objects[Root], LAMBDA o : o # WinId)
           /\ Len(m_Objects'[Root]) = Len(m_Objects[Root]) - 1
           /\ Len(m_ObjName'[Root]) = Len(m_ObjName[Root]) - 1]_vars

C2_Witness ==
    /\ Delivered("MouseButtonReleased") /\ hist.prev /\ Closed
    /\ m_Objects[Root] = <<WinId + 1, WinId + 2>>

\* C3: a release closes the window only if the button event before it was a
\* press inside the close button's hit region.
C3_CloseNeedsPressOnButton ==
    (Delivered("MouseButtonReleased") /\ Closed) => hist.prev

\* C4: a close adds the "closed" callback first, and only if callbackID > 0,
\* then destroys the window's children, then removes the window.
C4_CloseOrder ==
    Closed =>
        LET cb == Position(fx, "m_Parent->addCallback")
            all == Position(fx, "removeAllObjects")
            rm == Position(fx, "m_Parent->remove")
        IN  /\ 0 < all /\ all < rm
            /\ (callbackID > 0) <=> (0 < cb /\ cb < all)
            /\ (callbackID = 0) <=> (cb = 0)
            /\ Len(callbackQueue) = (IF callbackID > 0 THEN 1 ELSE 0)
            /\ \A i \in 1..Len(callbackQueue) : callbackQueue[i].trigger = "closed"
            /\ m_Objects[Win] = <<>>
            /\ \A id \in DOMAIN heap : heap[id].m_Parent # Win
            /\ ~Has(m_Objects[Root], WinId)

C4_Witness ==
    /\ Closed /\ callbackID > 0 /\ Len(callbackQueue) = 1
    /\ Position(fx, "m_Parent->addCallback") = 2
    /\ Cardinality(DOMAIN heap) = 2

\* C5: once the window has removed itself, handleEvent only returns: the
\* close button is not put back, nothing reaches the Panel, no callback follows.
C5_ReturnsAfterRemoval ==
    \A i \in 1..Len(fx) :
        fx[i] = "m_Parent->remove"
            => /\ Len(fx) = i + 1 /\ fx[i + 1] = "return"
               /\ panelEvents = <<>>
               /\ m_CloseButton.position = closeButtonPosition

C5_Witness ==
    /\ Closed /\ Has(fx, "m_Parent->remove")
    /\ m_CloseButton.position # Origin

\* C6: a press in the title bar outside the close button starts the drag and
\* records press point - window position; nothing else starts a drag or
\* changes the recorded offset.
C6_DragStartsOnTitleBarPress ==
    [][IF /\ Delivering("MouseButtonPressed")
          /\ InTitleBar(call'.x, call'.y) /\ ~InCloseRegion(call'.x, call'.y)
       THEN /\ m_MouseDown' = TRUE
            /\ m_DraggingPosition' = Point(call'.x - position.x, call'.y - position.y)
       ELSE /\ m_MouseDown' => m_MouseDown
            /\ m_DraggingPosition' = m_DraggingPosition]_vars

C6_Witness ==
    /\ Delivered("MouseButtonPressed") /\ m_MouseDown /\ hist.drag
    /\ position.x > 0 /\ m_DraggingPosition.x > 0
    /\ m_DraggingPosition = Point(call.x - position.x, call.y - position.y)

\* C7 as claimed: after any release delivered to handleEvent the window is idle.
C7_ReleaseEndsDrag ==
    Delivered("MouseButtonReleased") => m_MouseDown = FALSE

\* C7 amended: after any release delivered to a loaded window the window is
\* idle, and a move that follows the release does not reposition it.
C7_ReleaseEndsDragWhileLoaded ==
    [][/\ (Delivering("MouseButtonReleased") /\ m_Loaded) => m_MouseDown' = FALSE
       /\ (Delivered("MouseButtonReleased") /\ m_Loaded /\ Delivering("MouseMoved"))
            => position' = position]_vars

C7_Witness ==
    /\ Delivered("MouseButtonReleased") /\ m_Loaded /\ Alive
    /\ m_MouseDown = FALSE
    /\ position # Origin
    /\ ~InTitleBar(call.x, call.y)

\* C8: a press, a release, or a move while not dragging inside the title-bar
\* rectangle is never passed on to the embedded Panel.
C8_TitleBarPriority ==
    [][(/\ call'.op = "handleEvent"
        /\ InTitleBarRect(call'.x, call'.y)
        /\ (call'.type = "MouseMoved" => m_MouseDown = FALSE))
        => (panelEvents' = <<>> /\ ~Has(fx', "Panel::handleEvent"))]_vars

C8_Witness ==
    /\ Delivered("MouseButtonReleased") /\ m_Loaded /\ Alive
    /\ InTitleBarRect(call.x, call.y)
    /\ panelEvents = <<>>

\* C9: a move that repositions the window is not also passed to the Panel.
C9_DragMoveConsumed ==
    (Delivered("MouseMoved") /\ Has(fx, "setPosition")) => panelEvents = <<>>

\* C10: get(name) returns the first child in sequence order whose name is
\* name, NULL when there is none, and leaves the container as it was.
C10_GetFirstMatch ==
    [][call'.op = "get" =>
        LET g == call'.group
            names == m_ObjName[g]
            hits == {i \in 1..Len(names) : names[i] = call'.name}
        IN  /\ UNCHANGED <<m_Objects, m_ObjName, heap>>
            /\ hits = {} => returned' = NULL
            /\ hits # {} => \E i \in hits : /\ returned' = m_Objects[g][i]
                                            /\ \A j \in hits : i <= j]_vars

C10_Witness ==
    /\ call.op = "get" /\ returned # NULL
    /\ \E i, j \in 1..Len(m_ObjName[Root]) :
          /\ i < j
          /\ m_ObjName[Root][i] = call.name /\ m_ObjName[Root][j] = call.name
          /\ returned = m_Objects[Root][i]

\* ------------------------------------------------- properties: containers

Called(op) == call.op = op
Calling(op) == call'.op = op
NamesOf(g) == {m_ObjName[g][i] : i \in 1..Len(m_ObjName[g])}

\* C11: get called with an empty name returns none, whatever the container
\* holds, children added with the empty (default) name included.
C11_GetEmptyNameReturnsNone ==
    (Called("get") /\ call.name = "") => returned = NULL

\* C12 as stated: whatever the container held, add(n) then get(n) returns the
\* instance the add returned, and after a following remove(n), get(n) returns
\* none (n not empty).
C12_AddGetRemoveGet ==
    /\ hist.stage = 2 => returned = hist.id
    /\ hist.stage = 4 => returned = NULL

\* C12, for a name n that is not empty: if no child had the name n before the
\* add, add(n) then get(n) returns the instance the add returned and after a
\* following remove(n), get(n) returns none; if a child already had the name,
\* get(n) returns an earlier child and after remove(n) a child named n is
\* still found.
C12_AddGetRemoveGetFreshName ==
    /\ (hist.stage = 2 /\ hist.fresh) => returned = hist.id
    /\ (hist.stage = 4 /\ hist.fresh) => returned = NULL
    /\ (hist.stage = 2 /\ ~hist.fresh) => (returned # NULL /\ returned # hist.id)
    /\ (hist.stage = 4 /\ ~hist.fresh) => returned # NULL

C12_Witness ==
    /\ Called("get") /\ hist.stage = 4 /\ hist.fresh /\ hist.name = "a"
    /\ returned = NULL
    /\ Len(m_Objects[Root]) = 2
    /\ hist.id \notin DOMAIN heap

\* C13: add appends exactly one new child with the given name at the end of
\* the child sequence, leaves every existing child and its name at the same
\* index and as it was, and returns an identity no child of the container (and
\* no live object) has, also when the name collides with an existing one.
C13_AddAppendsOneNewChild ==
    [][Calling("add") =>
        LET g == call'.group
        IN  /\ m_Objects'[g] = Append(m_Objects[g], returned')
            /\ m_ObjName'[g] = Append(m_ObjName[g], call'.name)
            /\ returned' \notin Children(g)
            /\ returned' \notin DOMAIN heap
            /\ returned' # NULL
            /\ \A id \in DOMAIN heap : id \in DOMAIN heap' /\ heap'[id] = heap[id]
            /\ \A other \in Groups \ {g} :
                  m_Objects'[other] = m_Objects[other] /\ m_ObjName'[other] = m_ObjName[other]
    ]_vars

C13_Witness ==
    /\ Called("add") /\ call.name = "a"
    /\ m_ObjName[Root] = <<"a", "", "a">>
    /\ returned = m_Objects[Root][3]
    /\ returned \notin {m_Objects[Root][1], m_Objects[Root][2]}
    /\ m_Objects[Root][1] > m_Objects[Root][2]

\* The children of g that are focused.
Focused(g) == {c \in Children(g) : heap[c].m_Focused}
FirstNamed(g, objectName) ==
    CHOOSE i \in 1..Len(m_ObjName[g]) :
        /\ m_ObjName[g][i] = objectName
        /\ \A j \in 1..Len(m_ObjName[g]) : m_ObjName[g][j] = objectName => i <= j
\* Every object that was live stays live and as it was.
HeapKept == \A id \in DOMAIN heap : id \in DOMAIN heap' /\ heap'[id] = heap[id]

\* C14: copy, by handle and by name, produces a clone whose concrete kind is
\* the concrete kind of the source widget, whatever type parameter the call
\* is made with, and appends it under newName.
C14_CopyKeepsConcreteKind ==
    (Called("copy") /\ returned # NULL) =>
        /\ heap[returned].kind = heap[call.source].kind
        /\ m_Objects[call.group][Len(m_Objects[call.group])] = returned
        /\ m_ObjName[call.group][Len(m_ObjName[call.group])] = call.name

\* C15: copy by name with a source name no child has returns none and leaves
\* the child sequence and the name sequence unchanged; with a known name it
\* clones the first child of that name and appends exactly one child, under
\* the new name, at the end, the source and all other children unchanged.
C15_CopyByName ==
    [][(Calling("copy") /\ call'.by = "name") =>
        LET g == call'.group
        IN  IF call'.oldName \notin NamesOf(g)
            THEN returned' = NULL /\ UNCHANGED <<m_Objects, m_ObjName, heap>>
            ELSE LET source == m_Objects[g][FirstNamed(g, call'.oldName)]
                 IN  /\ call'.source = source
                     /\ returned' \notin DOMAIN heap \cup {NULL}
                     /\ m_Objects'[g] = Append(m_Objects[g], returned')
                     /\ m_ObjName'[g] = Append(m_ObjName[g], call'.name)
                     /\ heap'[returned'].kind = call'.T
                     /\ heap'[returned'].m_Parent = heap[source].m_Parent
                     /\ heap'[returned'].position = heap[source].position
                     /\ heap'[returned'].size = heap[source].size
                     /\ DOMAIN heap' = DOMAIN heap \cup {returned'}
                     /\ HeapKept
    ]_vars

C15_Witness ==
    /\ Called("copy") /\ call.by = "name" /\ call.oldName = "a" /\ call.name = ""
    /\ m_ObjName[Root] = <<"a", "a", "">>
    /\ call.source = m_Objects[Root][1]
    /\ returned = m_Objects[Root][3]
    /\ heap[m_Objects[Root][1]].kind # heap[m_Objects[Root][2]].kind

\* C16: remove by name removes only the first child with that name (later
\* children of the same name stay, in order); remove of a name or a handle that
\* is not in the container changes nothing; removing the focused child leaves
\* the container with no focused child.
C16_Remove ==
    [][Calling("remove") =>
        LET g == call'.group
            known == IF call'.by = "name" THEN call'.name \in NamesOf(g)
                     ELSE call'.object \in Children(g)
            i == IF call'.by = "name" THEN FirstNamed(g, call'.name)
                 ELSE CHOOSE k \in 1..Len(m_Objects[g]) : m_Objects[g][k] = call'.object
        IN  IF ~known
            THEN UNCHANGED <<m_Objects, m_ObjName, heap>>
            ELSE /\ m_Objects'[g] = Without(m_Objects[g], i)
                 /\ m_ObjName'[g] = Without(m_ObjName[g], i)
                 /\ DOMAIN heap' = DOMAIN heap \ {m_Objects[g][i]}
                 /\ \A id \in DOMAIN heap' : heap'[id] = heap[id]
                 /\ heap[m_Objects[g][i]].m_Focused =>
                       \A c \in 1..Len(m_Objects'[g]) : ~heap'[m_Objects'[g][c]].m_Focused
    ]_vars

C16_Witness ==
    /\ Called("remove") /\ call.by = "name" /\ call.name = "a"
    /\ call.object # NULL /\ call.object \notin DOMAIN heap
    /\ m_ObjName[Root] = <<"", "a">>
    /\ call.object > m_Objects[Root][1] /\ call.object < m_Objects[Root][2]
    /\ Focused(Root) = {}

\* C17: after removeAllObjects the container has no children, no names and no
\* focused child, and the children it had are destroyed, whatever calls came
\* before.
C17_RemoveAllObjects ==
    Called("removeAllObjects") =>
        /\ m_Objects[call.group] = <<>>
        /\ m_ObjName[call.group] = <<>>
        /\ Focused(call.group) = {}
        /\ \A id \in DOMAIN heap : heap[id].m_Parent # call.group

C17_Witness ==
    /\ Called("removeAllObjects") /\ call.count = MaxObjects
    /\ m_Objects[Root] = <<>> /\ m_ObjName[Root] = <<>>
    /\ heap = <<>>

Others(seq, x) == SelectSeq(seq, LAMBDA o : o # x)
Members(seq) == {seq[i] : i \in 1..Len(seq)}

\* C19: the draw order of a container is the insertion order of its children
\* until a reorder call (every other call keeps the children that stay in
\* their relative order and puts a new child after them); after
\* moveObjectToFront(ck), ck is last in draw order and first in hit-test scan
\* order, after moveObjectToBack(ck) it is first in draw order, and in both
\* cases the set of children and the relative order of the others are unchanged.
C19_ZOrder ==
    [][\A g \in Groups :
        LET old == drawOrder(g)
            new == drawOrder(g)'
            scan == hitTestOrder(g)'
            stay == Members(old) \cap Members(new)
        IN  IF call'.op \in {"moveObjectToFront", "moveObjectToBack"} /\ call'.group = g
            THEN /\ Members(new) = Members(old)
                 /\ Len(new) = Len(old)
                 /\ Others(new, call'.object) = Others(old, call'.object)
                 /\ call'.op = "moveObjectToFront" =>
                        new[Len(new)] = call'.object /\ scan[1] = call'.object
                 /\ call'.op = "moveObjectToBack" =>
                        new[1] = call'.object /\ scan[Len(scan)] = call'.object
            ELSE /\ SelectSeq(new, LAMBDA o : o \in stay) = SelectSeq(old, LAMBDA o : o \in stay)
                 /\ \A i, j \in 1..Len(new) :
                        (i < j /\ new[i] \notin Members(old)) => new[j] \notin Members(old)
    ]_vars

C19_Witness ==
    /\ Called("moveObjectToFront") /\ call.from = 1
    /\ Len(m_Objects[Root]) = MaxObjects
    /\ drawOrder(Root)[MaxObjects] = call.object
    /\ hitTestOrder(Root)[1] = call.object
    /\ drawOrder(Root)[1] < drawOrder(Root)[2]

\* The deliveries of the last pointer event, and the children under the pointer.
Receivers == {i \in 1..Len(fx) : fx[i].fn = handler(call.type)}
UnderPointer(g) ==
    {k \in 1..Len(m_Objects[g]) : widgetMouseOnObject(m_Objects[g][k], call.x, call.y)}

\* C20: for every pointer event delivered to a container at most one child
\* receives it, and that child is the frontmost one (highest position in the
\* sequence) whose hit test answers yes; the children behind it do not receive
\* the event even when they are under the pointer too.
C20_OneReceiverFrontmost ==
    Called("EventManager::handleEvent") =>
        LET g == call.group
            over == UnderPointer(g)
        IN  /\ Cardinality(Receivers) <= 1
            /\ over = {} => Receivers = {}
            /\ over # {} =>
                  \E i \in Receivers, k \in over :
                      /\ fx[i].object = m_Objects[g][k]
                      /\ \A j \in over : j <= k

C20_Witness ==
    /\ Called("EventManager::handleEvent") /\ call.type = "MouseButtonPressed"
    /\ UnderPointer(Root) = {1, 3}
    /\ fx = <<[object |-> m_Objects[Root][3], fn |-> "leftMousePressed"]>>
    /\ m_Objects[Root][3] < m_Objects[Root][1]

\* The children of g that are hovered.
Hovered(g) == {c \in Children(g) : heap[c].m_MouseHover}

\* C21: at every instant at most one child of a container is hovered, and when
\* a move takes the hover from one child to another the child that loses it
\* receives its exit notification strictly before the other receives the move.
C21_SingleHoverExitBeforeEnter ==
    /\ \A g \in Groups : Cardinality(Hovered(g)) <= 1
    /\ (Called("EventManager::handleEvent") /\ call.type = "MouseMoved") =>
          /\ \A i, j \in 1..Len(fx) :
                (fx[i].fn = "mouseNotOnObject" /\ fx[j].fn = "mouseMoved") => i < j
          /\ \A i \in 1..Len(fx) :
                /\ fx[i].fn = "mouseNotOnObject" => fx[i].object \notin Hovered(call.group)
                /\ fx[i].fn = "mouseMoved" => Hovered(call.group) = {fx[i].object}

C21_Witness ==
    /\ Called("EventManager::handleEvent") /\ call.type = "MouseMoved"
    /\ Len(fx) = 2
    /\ fx[1].fn = "mouseNotOnObject" /\ fx[2].fn = "mouseMoved"
    /\ fx[1].object # fx[2].object
    /\ Hovered(Root) = {fx[2].object}

\* ------------------------------------------------------ properties: layout

TheLayout == heap[LayoutId]
LayoutChild(i) == heap[TheLayout.m_layoutWidgets[i]]
AxisSizes == [i \in 1..Len(TheLayout.m_layoutWidgets) |-> LayoutChild(i).size.x]
AxisOffsets == [i \in 1..Len(TheLayout.m_layoutWidgets) |-> LayoutChild(i).position.x]
RatioChildren ==
    {i \in 1..Len(TheLayout.m_layoutWidgets) : isZero(TheLayout.m_widgetsFixedSizes[i])}
Positive(f) == f.c = "fin" /\ f.m > 0

\* Exact values: the integer n with f = n * 2^e0, for an exponent e0 that is
\* at most the exponent of every float compared.
units(f, e0) == f.m * 2^(f.e - e0)
LeastExp(fs) == CHOOSE e \in {f.e : f \in fs} : \A f \in fs : e <= f.e
Range(s) == {s[i] : i \in 1..Len(s)}

\* The exact sum of the first k floats of s, and of their magnitudes over the
\* indices in `among`.
RECURSIVE unitsBefore(_, _, _)
unitsBefore(s, k, e0) ==
    IF k = 0 THEN 0 ELSE unitsBefore(s, k - 1, e0) + units(s[k], e0)
RECURSIVE magnitudeBefore(_, _, _, _)
magnitudeBefore(s, k, among, e0) ==
    IF k = 0 THEN 0
    ELSE magnitudeBefore(s, k - 1, among, e0)
         + (IF k \in among THEN Abs(units(s[k], e0)) ELSE 0)

\* Every ratio child's share (m_size.x - sumFixedSize) * ratio / sumRatio is a
\* float: the significand of sumRatio divides that of the product.
SharesAreFloats ==
    \A i \in RatioChildren :
        (remaining(TheLayout).m * TheLayout.m_widgetsRatio[i].m) % sumRatio(TheLayout).m = 0

OffsetExp(i) ==
    LeastExp(Range(AxisSizes) \cup {AxisOffsets[i], remaining(TheLayout)})
OffsetGap(i) ==
    Abs(units(AxisOffsets[i], OffsetExp(i)) - unitsBefore(AxisSizes, i - 1, OffsetExp(i)))

C24_ZeroRatioSumGivesZeroSize ==
    isZero(sumRatio(TheLayout)) =>
        \A i \in RatioChildren :
            /\ AxisSizes[i] = float(0)
            /\ AxisOffsets[i].c = "fin"

\* C25: every child with a non-zero fixed size has exactly that size along
\* the axis, whatever the extent and the other children are, and every child
\* has the container's cross extent as its cross size and cross position 0.
C25_FixedSizeAndCrossAxis ==
    \A i \in 1..Len(TheLayout.m_layoutWidgets) :
        /\ i \notin RatioChildren => AxisSizes[i] = TheLayout.m_widgetsFixedSizes[i]
        /\ LayoutChild(i).size.y = TheLayout.m_size.y
        /\ LayoutChild(i).position.y = float(0)

C25_Witness ==
    /\ Called("setSize")
    /\ Len(AxisSizes) = MaxWidgets
    /\ RatioChildren = {2}
    /\ remaining(TheLayout).m < 0
    /\ AxisSizes[1] = float(60) /\ AxisSizes[3] = float(60)
    /\ \A i \in 1..MaxWidgets : LayoutChild(i).size.y = float(20)

\* ------------------------------------------------------ properties: slider

TheSlider == heap[SliderId]
Axes == {"x", "y"}
Ordered(s, a) == fle(s.m_Minimum[a], s.m_Maximum[a])
Within(s, a) == fle(s.m_Minimum[a], s.m_Value[a]) /\ fle(s.m_Value[a], s.m_Maximum[a])

C28_ReleaseCenters ==
    Called("leftMouseReleased") =>
        /\ ~TheSlider.m_MouseDown
        /\ TheSlider.m_Minimum = call.before.m_Minimum
        /\ TheSlider.m_Maximum = call.before.m_Maximum
        /\ TheSlider.returnToCenter = call.before.returnToCenter
        /\ \A a \in Axes :
              IF TheSlider.returnToCenter
              THEN /\ fadd(TheSlider.m_Value[a], TheSlider.m_Value[a])
                        = fadd(TheSlider.m_Minimum[a], TheSlider.m_Maximum[a])
              ELSE TheSlider.m_Value[a] = call.before.m_Value[a]

C28_Witness ==
    /\ Called("leftMouseReleased")
    /\ call.before.m_MouseDown /\ call.before.returnToCenter
    /\ call.before.m_Value = Vec(<<1, -1>>)
    /\ TheSlider.m_Minimum = Vec(<<-1, -1>>) /\ TheSlider.m_Maximum = Vec(<<2, 0>>)
    /\ TheSlider.m_Value = Vector2f(Fin(1, -1), Fin(-1, -1))

\* ------------------------------------------------------ properties: window

\* C29: while the window is not loaded, handleEvent changes no state and
\* delegates nothing, whatever the event; mouseOnObject answers false for
\* every point; and setTitlebarHeight leaves the title-bar height unchanged.
C29_NotLoadedGuard ==
    [][m_Loaded = FALSE =>
          /\ Calling("handleEvent") =>
                /\ UNCHANGED <<position, m_MouseDown, m_DraggingPosition, m_CloseButton,
                               groupVars, m_Size, m_TitleBarHeight, m_Loaded>>
                /\ panelEvents' = <<>>
                /\ ~Has(fx', "Panel::handleEvent")
          /\ Calling("mouseOnObject") =>
                /\ returned' = FALSE
                /\ panelEvents' = <<>>
                /\ UNCHANGED <<groupVars, winVars>>
          /\ Calling("setTitlebarHeight") =>
                UNCHANGED <<m_TitleBarHeight, m_CloseButton, groupVars, m_Loaded>>
    ]_vars

C29_Witness ==
    /\ Called("setTitlebarHeight")
    /\ m_Loaded = FALSE /\ m_CloseButton.m_Loaded
    /\ m_TitleBarHeight = TitleBarImageHeight
    /\ call.height = 2 * TitleBarImageHeight

\* C30: every event delivered to a loaded window with the pointer outside
\* the title-bar rectangle, and not closing the window, reaches the embedded
\* Panel exactly once, with the same x and with y reduced by the title-bar
\* height; mouseOnObject outside the title bar answers what the Panel's hit
\* test answers at (x, y - title-bar height).
C30_DelegatedShifted ==
    [][m_Loaded =>
          /\ (/\ Calling("handleEvent")
              /\ ~InTitleBarRect(call'.x, call'.y)
              /\ Alive') =>
                /\ panelEvents' = <<[type |-> call'.type, x |-> call'.x,
                                     y |-> call'.y - m_TitleBarHeight]>>
                /\ Cardinality({i \in 1..Len(fx') : fx'[i] = "Panel::handleEvent"}) = 1
          /\ (Calling("mouseOnObject") /\ ~InTitleBarRect(call'.x, call'.y)) =>
                /\ panelEvents' = <<[type |-> "mouseOnObject", x |-> call'.x,
                                     y |-> call'.y - m_TitleBarHeight]>>
                /\ returned' = panelMouseOnObject(call'.x, call'.y - m_TitleBarHeight)
                /\ UNCHANGED <<groupVars, winVars>>
    ]_vars

C30_Witness ==
    /\ Called("handleEvent") /\ call.type = "MouseButtonPressed"
    /\ m_Loaded /\ m_TitleBarHeight = 2 * TitleBarImageHeight
    /\ ~InTitleBarRect(call.x, call.y)
    /\ position.y < 0
    /\ panelEvents = <<[type |-> call.type, x |-> call.x, y |-> call.y - m_TitleBarHeight]>>


\* ------------------------------------------------- properties: the last claims

\* C31: add runs the new widget's initialize exactly once, and at that moment
\* the widget's m_Parent is the container and the container's sequences
\* already end with the widget and with its name.
C31_HookRunsOnceAfterInsertion ==
    Called("add") =>
        /\ call.hook.runs = 1
        /\ call.hook.m_Parent = call.group
        /\ Len(call.hook.m_Objects) > 0
        /\ call.hook.m_Objects[Len(call.hook.m_Objects)] = returned
        /\ Len(call.hook.m_ObjName) = Len(call.hook.m_Objects)
        /\ call.hook.m_ObjName[Len(call.hook.m_ObjName)] = call.name
        /\ heap[returned].initialized
        /\ heap[returned].m_Parent = call.group

C31_Witness ==
    /\ Called("add")
    /\ call.name = "b"
    /\ Len(m_Objects[Root]) = 2
    /\ call.hook.runs = 1

\* C32: a load leaves the window loaded exactly when it returns true, a load
\* given an empty pathname returns false, and no other call changes whether
\* the window is loaded.
C32_LoadedIffLastLoadReturnedTrue ==
    [][/\ Calling("load") =>
            /\ m_Loaded' = returned'
            /\ call'.pathname = "" => returned' = FALSE
       /\ ~Calling("load") => m_Loaded' = m_Loaded]_vars

\* A load that fails on a window an earlier load had loaded.
C32_Witness ==
    /\ Called("load")
    /\ call.pathname = "theme"
    /\ returned = FALSE
    /\ m_Loaded = FALSE
    /\ m_CloseButton.m_Loaded
    /\ m_TitleBarHeight = TitleBarImageHeight

\* C33: after a = b with a and b distinct, a's old close button has been
\* deleted once, a owns a new close button that is a copy of b's, b still owns
\* its own, and no close button has been deleted twice; a = a changes nothing.
C33_CloseButtonsDeletedOnce ==
    Called("operator=") =>
        IF call.this = call.right THEN heap = call.before
        ELSE LET old == call.before[call.this].m_CloseButton
                 new == heap[call.this].m_CloseButton
                 theirs == heap[call.right].m_CloseButton
             IN  /\ heap[old].deleted = 1
                 /\ new \notin DOMAIN call.before
                 /\ heap[new] = ButtonCopy(heap[theirs])
                 /\ theirs = call.before[call.right].m_CloseButton
                 /\ heap[theirs].deleted = 0
                 /\ \A button \in Buttons(heap) : heap[button].deleted <= 1

\* C34: every widget in a container's child sequence has that container as
\* its m_Parent, after any adds and copies, a copy of a widget that another
\* container holds included.
C34_ChildrenPointAtTheirContainer ==
    \A g \in Groups : \A object \in Children(g) : heap[object].m_Parent = g

\* C35: a container's name sequence is as long as its child sequence, and a
\* call leaves every child that stays paired with the name it had: the new
\* child of an add or a copy gets the name given, and a removal or a reorder
\* moves no name onto another child.
NameOf(g, object) == m_ObjName[g][IndexOf(m_Objects[g], object, 1)]

C35_NamesStayWithWidgets ==
    [][\A g \in Groups :
          /\ Len(m_ObjName'[g]) = Len(m_Objects'[g])
          /\ \A object \in Children(g) \cap Children(g)' :
                NameOf(g, object)' = NameOf(g, object)
          /\ \A object \in Children(g)' \ Children(g) :
                NameOf(g, object)' = call'.name]_vars

\* A reorder of children that carry different names.
C35_Witness ==
    /\ Called("moveObjectToBack")
    /\ call.from > 1
    /\ Len(m_ObjName[Root]) = 3
    /\ m_ObjName[Root][1] # m_ObjName[Root][2]

\* C37: a child is given its fixed size exactly when that fixed size is not
\* zero; a child whose fixed size is zero is given its share by ratio, of a
\* ratio sum that counts only such children; and the ratio of a child with a
\* fixed size changes nothing: the layout with those ratios set to zero puts
\* and sizes every child the same.
FixedIsSet(i) == TheLayout.m_widgetsFixedSizes[i] # float(0)
CountedRatios ==
    [i \in 1..Len(TheLayout.m_widgetsRatio) |->
        IF FixedIsSet(i) THEN float(0) ELSE TheLayout.m_widgetsRatio[i]]
CountedSum == accumulate(CountedRatios, 1, float(0))

C37_FixedIffNonZero ==
    /\ \A i \in 1..Len(TheLayout.m_layoutWidgets) :
          LayoutChild(i).size.x =
              IF FixedIsSet(i) THEN TheLayout.m_widgetsFixedSizes[i]
              ELSE fdiv(fmul(fsub(TheLayout.m_size.x, sumFixedSize(TheLayout)),
                             TheLayout.m_widgetsRatio[i]),
                        CountedSum)
    /\ LET others == updateWidgetPositions(
                         [heap EXCEPT ![LayoutId].m_widgetsRatio = CountedRatios])
       IN  \A i \in 1..Len(TheLayout.m_layoutWidgets) :
              others[TheLayout.m_layoutWidgets[i]] = LayoutChild(i)

\* A child with a fixed size and a ratio of its own, after a ratio child and
\* before another.
C37_Witness ==
    /\ Len(TheLayout.m_layoutWidgets) = 3
    /\ ~FixedIsSet(1) /\ Positive(TheLayout.m_widgetsRatio[1])
    /\ FixedIsSet(2) /\ Positive(TheLayout.m_widgetsRatio[2])
    /\ ~FixedIsSet(3) /\ Positive(TheLayout.m_widgetsRatio[3])
    /\ LayoutChild(2).size.x = TheLayout.m_widgetsFixedSizes[2]
    /\ Positive(LayoutChild(3).position.x)

\* C36: a mouse-move delivered to a loaded window with the pointer outside
\* the close button's hit region leaves the close button not hovered. The
\* button is hovered from the m_CloseButton->mouseMoved of one event on, and
\* only a call on the button can end that: the next move, if it is outside the
\* region, has to reach the button.
CloseButtonCalls ==
    {"m_CloseButton->setPosition", "m_CloseButton->mouseMoved",
     "m_CloseButton->leftMousePressed", "m_CloseButton->setPosition(0, 0)"}
CloseButtonHovered == Delivered("MouseMoved") /\ Has(fx, "m_CloseButton->mouseMoved")

C36_CloseButtonHoverEnds ==
    [][(/\ CloseButtonHovered
        /\ Delivering("MouseMoved")
        /\ m_Loaded
        /\ ~InCloseRegion(call'.x, call'.y))
        => \E i \in 1..Len(fx') : fx'[i] \in CloseButtonCalls]_vars

====
